---- MODULE Spec2Model ----
(***************************************************************************)
(* moldb-api: the two molecule stores (LMDBMoleculeStore over an LMDB      *)
(* environment, SQLiteMoleculeStore over one SQLite file in WAL mode with  *)
(* a connection per thread), modelled as state machines.                   *)
(*                                                                         *)
(* Strings are sequences of Unicode code points, byte strings sequences of *)
(* byte values; Python's None is the one-element sequence <<-1>>, which is *)
(* no string (no code point is negative).                                  *)
(***************************************************************************)
EXTENDS Integers, Sequences, FiniteSets, TLC

\* lmdb, sqlite: the two stores; setup: which stores were constructed and
\* which threads call them; call, lres, sres: the last call that returned or
\* raised, and what it gave on the LMDB store and on the SQLite store
\* run: for each thread, the call it is in the middle of, when calls of several
\* threads overlap
\* env: whether the database file can be opened, and which store objects exist
\* ldr: the run of a bulk-loader script (its local variables and position)
\* http: a GET /molecule request on its way from query_molecule to the handler
\* cfg: a Config object, with the config file and the environment it reads
VARIABLES lmdb, sqlite, setup, call, lres, sres, run, env, ldr, http, cfg

vars == <<lmdb, sqlite, setup, call, lres, sres, run, env, ldr, http, cfg>>

----------------------------------------------------------------------------
(* Values                                                                  *)

None == <<-1>>

\* "" and "A": two contents a caller can store
EmptyStr == <<>>
StrA == <<65>>
\* a str holding a lone surrogate (U+D800): str.encode() rejects it
Surrogate == <<55296>>

\* the keys: "k" (one byte in UTF-8) and "é" (two bytes in UTF-8)
Keys == {<<107>>, <<233>>}
GoodContents == {EmptyStr, StrA}
Contents == GoodContents \cup {Surrogate, None}
Threads == {"t1", "t2"}

\* the longest key list / item list one call is given
MaxBatch == 2

RECURSIVE SeqsUpTo(_, _)
SeqsUpTo(S, n) ==
  IF n = 0 THEN {<<>>}
  ELSE LET shorter == SeqsUpTo(S, n - 1)
       IN shorter \cup {Append(s, x) : s \in {q \in shorter : Len(q) = n - 1}, x \in S}

\* the (inchi, content) pairs batches are made of: a key written twice with
\* different contents, a second key, and the two contents that cannot be stored
BatchItems == {<<<<107>>, StrA>>, <<<<107>>, EmptyStr>>, <<<<233>>, StrA>>,
               <<<<233>>, Surrogate>>, <<<<107>>, None>>}

KeyLists == SeqsUpTo(Keys, MaxBatch)
ItemLists == SeqsUpTo(BatchItems, MaxBatch)

----------------------------------------------------------------------------
(* str.encode() / bytes.decode(): UTF-8 over the Basic Multilingual Plane  *)

IsSurrogate(cp) == cp >= 55296 /\ cp <= 57343

EncodeCodePoint(cp) ==
  IF cp < 128 THEN <<cp>>
  ELSE IF cp < 2048 THEN <<192 + (cp \div 64), 128 + (cp % 64)>>
  ELSE <<224 + (cp \div 4096), 128 + ((cp \div 64) % 64), 128 + (cp % 64)>>

RECURSIVE Utf8Encode(_)
Utf8Encode(s) ==
  IF s = <<>> THEN <<>> ELSE EncodeCodePoint(Head(s)) \o Utf8Encode(Tail(s))

RECURSIVE Utf8Decode(_)
Utf8Decode(b) ==
  IF b = <<>> THEN <<>>
  ELSE IF b[1] < 128 THEN <<b[1]>> \o Utf8Decode(SubSeq(b, 2, Len(b)))
  ELSE IF b[1] < 224
    THEN <<(b[1] - 192) * 64 + (b[2] - 128)>> \o Utf8Decode(SubSeq(b, 3, Len(b)))
  ELSE <<(b[1] - 224) * 4096 + (b[2] - 128) * 64 + (b[3] - 128)>>
         \o Utf8Decode(SubSeq(b, 4, Len(b)))

\* the exception `content.encode()` raises, "" when it returns
EncodeError(c) ==
  IF c = None THEN "AttributeError"
  ELSE IF \E i \in 1..Len(c) : IsSurrogate(c[i]) THEN "UnicodeEncodeError"
  ELSE ""

----------------------------------------------------------------------------
(* What a call gives back                                                  *)

Raised(e) == [kind |-> "raise", exc |-> e, val |-> <<>>]
RetBool(b) == [kind |-> "bool", exc |-> "", val |-> b]
RetStr(s) == [kind |-> "str", exc |-> "", val |-> s]
RetList(l) == [kind |-> "list", exc |-> "", val |-> l]
RetInt(n) == [kind |-> "int", exc |-> "", val |-> n]
NoResult == [kind |-> "none", exc |-> "", val |-> <<>>]

\* the rows of a table (a set of <<key bytes, content bytes>>) under key kb
RowsOf(rows, kb) == {r \in rows : r[1] = kb}

----------------------------------------------------------------------------
(* LMDB: the transaction methods the store calls.  A transaction works on  *)
(* `view`, its private copy of the rows taken at env.begin().              *)

\* txn.get(key): the value bytes, or None
TxnGet(view, kb) ==
  IF RowsOf(view, kb) = {} THEN None ELSE (CHOOSE r \in RowsOf(view, kb) : TRUE)[2]

\* txn.put drops every other key
TxnPut_Clears(view, kb, vb) == {<<kb, vb>>}

\* txn.put(key, value), overwrite=True: replaces the value of an existing key
TxnPut(view, kb, vb) == (view \ RowsOf(view, kb)) \cup {<<kb, vb>>}

\* txn.put refuses to replace the value of an existing key
TxnPutResult_NoOverwrite(view, kb) == RowsOf(view, kb) = {}

\* what txn.put(key, value) returns with the default overwrite=True: True,
\* whether or not the key had a value
TxnPutResult(view, kb) == TRUE

\* the bytes of data a set of rows holds: keys and values
RECURSIVE RowBytes(_)
RowBytes(view) ==
  IF view = {} THEN 0
  ELSE LET r == CHOOSE x \in view : TRUE
       IN Len(r[1]) + Len(r[2]) + RowBytes(view \ {r})

MapFull == "lmdb.MapFullError"

\* the map never fills
PutError_NoLimit(view, kb, vb) == ""

\* txn.put on an environment opened with map_size: lmdb.MapFullError when the
\* rows with the new pair no longer fit the map
PutError(view, kb, vb) ==
  IF RowBytes(TxnPut(view, kb, vb)) > env.map_size THEN MapFull ELSE ""

\* txn.delete(key): [view, found]
TxnDelete(view, kb) ==
  [view |-> view \ RowsOf(view, kb), found |-> RowsOf(view, kb) # {}]

\* leaving the block commits whatever the body did, even when it raised
TxnExit_CommitsOnError(rows, view, exc) == view

\* `with self.env.begin(...) as txn:` leaving the block: commit when the body
\* returned, abort when it raised; gives the committed rows
TxnExit(rows, view, exc) == IF exc = "" THEN view ELSE rows

\* every txn.get reads what is committed at the time it runs
SnapshotOf_Live(view, rows) == rows

\* what a txn.get inside `with self.env.begin() as txn:` reads: the rows as they
\* were when the transaction began (view), whatever was committed since (rows)
SnapshotOf(view, rows) == view

\* `data.decode() if data else None`: bytes are truthy when non-empty
DecodeIfData(data) ==
  IF data # None /\ Len(data) > 0 THEN Utf8Decode(data) ELSE None

----------------------------------------------------------------------------
(* LMDBMoleculeStore: each method, from the committed rows to the          *)
(* committed rows after the call and the call's result.                    *)

Lmdb_get_by_inchi(rows, inchi) ==
  [rows |-> rows, res |-> RetStr(DecodeIfData(TxnGet(rows, Utf8Encode(inchi))))]

RECURSIVE LmdbGetManyLoop(_, _, _, _)
LmdbGetManyLoop(view, inchis, i, results) ==
  IF i > Len(inchis) THEN results
  ELSE LET data == TxnGet(view, Utf8Encode(inchis[i]))
           content == DecodeIfData(data)
       IN LmdbGetManyLoop(view, inchis, i + 1, Append(results, <<inchis[i], content>>))

Lmdb_get_many_by_inchi(rows, inchis) ==
  [rows |-> rows, res |-> RetList(LmdbGetManyLoop(rows, inchis, 1, <<>>))]

Lmdb_put(rows, inchi, content) ==
  LET enc == EncodeError(content)
      e == IF enc # "" THEN enc
           ELSE PutError(rows, Utf8Encode(inchi), Utf8Encode(content))
      view == IF e = "" THEN TxnPut(rows, Utf8Encode(inchi), Utf8Encode(content)) ELSE rows
  IN [rows |-> TxnExit(rows, view, e),
      res |-> IF e = "" THEN RetBool(TxnPutResult(rows, Utf8Encode(inchi)))
              ELSE Raised(e)]

\* the loop of put_many from item i on: [view, exc, count]
RECURSIVE LmdbPutManyLoop(_, _, _, _)
LmdbPutManyLoop(view, items, i, count) ==
  IF i > Len(items) THEN [view |-> view, exc |-> "", count |-> count]
  ELSE LET enc == EncodeError(items[i][2])
           e == IF enc # "" THEN enc
                ELSE PutError(view, Utf8Encode(items[i][1]), Utf8Encode(items[i][2]))
       IN IF e # "" THEN [view |-> view, exc |-> e, count |-> count]
          ELSE LmdbPutManyLoop(
                 TxnPut(view, Utf8Encode(items[i][1]), Utf8Encode(items[i][2])),
                 items, i + 1, count + 1)

Lmdb_put_many(rows, items) ==
  LET r == LmdbPutManyLoop(rows, items, 1, 0)
  IN [rows |-> TxnExit(rows, r.view, r.exc),
      res |-> IF r.exc = "" THEN RetInt(r.count) ELSE Raised(r.exc)]

Lmdb_delete(rows, inchi) ==
  LET d == TxnDelete(rows, Utf8Encode(inchi))
  IN [rows |-> TxnExit(rows, d.view, ""), res |-> RetBool(d.found)]

----------------------------------------------------------------------------
(* SQLite (WAL mode) as the sqlite3 module drives it.  The store is        *)
(*   schema      whether table `molecules` exists                          *)
(*   rows        the committed rows of `molecules`                         *)
(*   txn[c]      the transaction of connection c: mode "auto" (none open), *)
(*               "deferred" (BEGIN issued, nothing read yet), "read" (a    *)
(*               snapshot `view` is held), "write" (the write lock is held *)
(*               and `view` carries the uncommitted rows); `stale` tells a *)
(*               held snapshot is older than the last commit, `dirty` that *)
(*               the write transaction changed rows                        *)
(*   local_conn  threading.local(): each thread's `conn` attribute, 0 when *)
(*               the attribute is not set                                  *)
(*   n_conn      the connections opened so far                             *)
(*   users[c]    the threads that were handed connection c                 *)

ConnIds == 1..Cardinality(Threads)

NoTxn == [mode |-> "auto", view |-> {}, stale |-> FALSE, dirty |-> FALSE]

NoTable == "OperationalError: no such table"
Locked == "OperationalError: database is locked"
NotNull == "IntegrityError: NOT NULL constraint failed"

\* sqlite3.connect on a file that cannot be opened
CantOpen == "OperationalError: unable to open database file"

\* what `sqlite3.connect(self.db_path, ...)` raises, "" when it connects
ConnError == IF env.openable THEN "" ELSE CantOpen

\* binding a parameter: None binds NULL, a str is encoded to UTF-8
BindError(v) == IF v = None THEN "" ELSE EncodeError(v)

\* one connection kept on the store object and handed to every thread
conn_Shared(db, t) ==
  IF db.n_conn = 0
  THEN [db EXCEPT !.n_conn = 1, !.local_conn[t] = 1, !.users[1] = @ \cup {t}]
  ELSE [db EXCEPT !.local_conn[t] = 1, !.users[1] = @ \cup {t}]

\* `self.conn`: the thread's connection, opened when the thread has none
conn(db, t) ==
  IF db.local_conn[t] = 0
  THEN [db EXCEPT !.n_conn = @ + 1,
                  !.local_conn[t] = db.n_conn + 1,
                  !.users[db.n_conn + 1] = @ \cup {t}]
  ELSE [db EXCEPT !.users[db.local_conn[t]] = @ \cup {t}]

\* a SELECT on connection c: [db, exc, seen], seen the rows it reads.  No
\* implicit BEGIN: outside a transaction it reads the last commit; inside one
\* it reads the transaction's snapshot, taking it if none is held.
SqlSelect(db, c) ==
  IF ~db.schema THEN [db |-> db, exc |-> NoTable, seen |-> {}]
  ELSE LET t0 == db.txn[c]
       IN IF t0.mode = "auto" THEN [db |-> db, exc |-> "", seen |-> db.rows]
          ELSE IF t0.mode = "deferred"
            THEN [db |-> [db EXCEPT !.txn[c] =
                           [mode |-> "read", view |-> db.rows,
                            stale |-> FALSE, dirty |-> FALSE]],
                  exc |-> "", seen |-> db.rows]
          ELSE [db |-> db, exc |-> "", seen |-> t0.view]

\* INSERT OR REPLACE on a table whose key column is PRIMARY KEY
SqlInsertOrReplace(view, kb, vb) == (view \ RowsOf(view, kb)) \cup {<<kb, vb>>}

\* a DML statement on connection c: [db, exc, rowcount].  stmt is "replace"
\* (INSERT OR REPLACE ... VALUES (key, content)) or "delete" (DELETE ... WHERE
\* inchi = key).  In order: prepare (needs the table), the implicit BEGIN,
\* binding, taking the write lock, running.
SqlDml(db, c, stmt, key, content) ==
  IF ~db.schema THEN [db |-> db, exc |-> NoTable, rowcount |-> 0]
  ELSE
    LET t0 == db.txn[c]
        t1 == IF t0.mode = "auto" THEN [t0 EXCEPT !.mode = "deferred"] ELSE t0
        db1 == [db EXCEPT !.txn[c] = t1]
        bindErr == IF stmt = "replace" THEN BindError(content) ELSE ""
        locked == \E o \in ConnIds \ {c} : db.txn[o].mode = "write"
        busy == t1.mode # "write" /\ (locked \/ (t1.mode = "read" /\ t1.stale))
        t2 == IF t1.mode = "write" THEN t1
              ELSE [mode |-> "write",
                    view |-> IF t1.mode = "read" THEN t1.view ELSE db.rows,
                    stale |-> FALSE, dirty |-> FALSE]
        db2 == [db EXCEPT !.txn[c] = t2]
        kb == Utf8Encode(key)
        hit == RowsOf(t2.view, kb)
    IN IF bindErr # "" THEN [db |-> db1, exc |-> bindErr, rowcount |-> 0]
       ELSE IF busy THEN [db |-> db1, exc |-> Locked, rowcount |-> 0]
       ELSE IF stmt = "replace" /\ content = None
         THEN [db |-> db2, exc |-> NotNull, rowcount |-> 0]
       ELSE IF stmt = "replace"
         THEN [db |-> [db2 EXCEPT
                         !.txn[c].view = SqlInsertOrReplace(t2.view, kb, Utf8Encode(content)),
                         !.txn[c].dirty = TRUE],
               exc |-> "", rowcount |-> 1]
       ELSE [db |-> [db2 EXCEPT !.txn[c].view = t2.view \ hit,
                                !.txn[c].dirty = t2.dirty \/ hit # {}],
             exc |-> "", rowcount |-> Cardinality(hit)]

\* connection.commit(): a write transaction publishes its rows, and the
\* snapshots other connections hold become stale; any transaction ends
SqlCommit(db, c) ==
  LET t0 == db.txn[c]
  IN IF t0.mode = "write"
     THEN [db EXCEPT !.rows = t0.view,
                     !.txn = [o \in ConnIds |->
                               IF o = c THEN NoTxn
                               ELSE IF db.txn[o].mode = "read" /\ t0.dirty
                                 THEN [db.txn[o] EXCEPT !.stale = TRUE]
                               ELSE db.txn[o]]]
     ELSE [db EXCEPT !.txn[c] = NoTxn]

\* connection.rollback(): the transaction ends, its rows are dropped
SqlRollback(db, c) == [db EXCEPT !.txn[c] = NoTxn]

----------------------------------------------------------------------------
(* SQLiteMoleculeStore: each method called on thread t, from the store to  *)
(* the store after the call and the call's result.                         *)

\* the table is made anew, empty
CreateTable_Recreates(db) == [db EXCEPT !.schema = TRUE, !.rows = {}]

\* `CREATE TABLE IF NOT EXISTS molecules (...)` and `CREATE INDEX IF NOT
\* EXISTS ...`: the table is made when there is none; an existing table is
\* left alone, and the statements take no lock and begin no transaction
CreateTable(db) == [db EXCEPT !.schema = TRUE]

Sqlite_init_db(db, t) ==
  IF ConnError # "" THEN [db |-> db, res |-> Raised(ConnError)] ELSE
  LET d0 == conn(db, t)
      c == d0.local_conn[t]
  IN [db |-> SqlCommit(CreateTable(d0), c), res |-> NoResult]

\* cur.fetchone() of `SELECT content ... WHERE inchi=?`, then
\* `row[0] if row else None`
Sqlite_get_by_inchi(db, t, inchi) ==
  IF ConnError # "" THEN [db |-> db, res |-> Raised(ConnError)] ELSE
  LET d0 == conn(db, t)
      c == d0.local_conn[t]
      q == SqlSelect(d0, c)
      found == RowsOf(q.seen, Utf8Encode(inchi))
  IN IF q.exc # "" THEN [db |-> q.db, res |-> Raised(q.exc)]
     ELSE [db |-> q.db,
           res |-> RetStr(IF found = {} THEN None
                          ELSE Utf8Decode((CHOOSE r \in found : TRUE)[2]))]

\* result_dict.get(inchi) over the rows `SELECT ... WHERE inchi IN (...)` gave
ResultDictGet(results, inchi) ==
  IF RowsOf(results, Utf8Encode(inchi)) = {} THEN None
  ELSE Utf8Decode((CHOOSE r \in RowsOf(results, Utf8Encode(inchi)) : TRUE)[2])

Sqlite_get_many_by_inchi(db, t, inchis) ==
  IF Len(inchis) = 0 THEN [db |-> db, res |-> RetList(<<>>)]
  ELSE IF ConnError # "" THEN [db |-> db, res |-> Raised(ConnError)]
  ELSE
    LET d0 == conn(db, t)
        c == d0.local_conn[t]
        q == SqlSelect(d0, c)
        results == {r \in q.seen : \E i \in 1..Len(inchis) : r[1] = Utf8Encode(inchis[i])}
    IN IF q.exc # "" THEN [db |-> q.db, res |-> Raised(q.exc)]
       ELSE [db |-> q.db,
             res |-> RetList([i \in 1..Len(inchis) |->
                               <<inchis[i], ResultDictGet(results, inchis[i])>>])]

Sqlite_put(db, t, inchi, content) ==
  IF ConnError # "" THEN [db |-> db, res |-> Raised(ConnError)] ELSE
  LET d0 == conn(db, t)
      c == d0.local_conn[t]
      x == SqlDml(d0, c, "replace", inchi, content)
  IN IF x.exc # "" THEN [db |-> x.db, res |-> Raised(x.exc)]
     ELSE [db |-> SqlCommit(x.db, c), res |-> RetBool(TRUE)]

\* the loop of put_many from item i on: [db, exc, count]
RECURSIVE SqlitePutManyLoop(_, _, _, _, _)
SqlitePutManyLoop(db, c, items, i, count) ==
  IF i > Len(items) THEN [db |-> db, exc |-> "", count |-> count]
  ELSE LET x == SqlDml(db, c, "replace", items[i][1], items[i][2])
       IN IF x.exc # "" THEN [db |-> x.db, exc |-> x.exc, count |-> count]
          ELSE SqlitePutManyLoop(x.db, c, items, i + 1, count + 1)

\* the error is re-raised without a rollback
PutManyOnError_NoRollback(db, c) == db

\* `except Exception as e: self.conn.rollback(); raise e`
PutManyOnError(db, c) == SqlRollback(db, c)

Sqlite_put_many(db, t, items) ==
  IF ConnError # "" THEN [db |-> db, res |-> Raised(ConnError)] ELSE
  LET d0 == conn(db, t)
      c == d0.local_conn[t]
      r == SqlitePutManyLoop(d0, c, items, 1, 0)
  IN IF r.exc # "" THEN [db |-> PutManyOnError(r.db, c), res |-> Raised(r.exc)]
     ELSE [db |-> SqlCommit(r.db, c), res |-> RetInt(r.count)]

Sqlite_delete(db, t, inchi) ==
  IF ConnError # "" THEN [db |-> db, res |-> Raised(ConnError)] ELSE
  LET d0 == conn(db, t)
      c == d0.local_conn[t]
      x == SqlDml(d0, c, "delete", inchi, None)
  IN IF x.exc # "" THEN [db |-> x.db, res |-> Raised(x.exc)]
     ELSE [db |-> SqlCommit(x.db, c), res |-> RetBool(x.rowcount > 0)]

----------------------------------------------------------------------------
(* The stores after construction, and one call at a time: every call is    *)
(* made by one of the calling threads and runs to its end on each store    *)
(* that was constructed.                                                   *)

NoCall == [op |-> "none", t |-> "", inchi |-> <<>>, content |-> <<>>,
           inchis |-> <<>>, items |-> <<>>]

\* a thread that is in no call
Idle == [pc |-> "idle", op |-> "none", inchis |-> <<>>, items |-> <<>>, i |-> 0,
         view |-> {}, began |-> {}, results |-> <<>>, count |-> 0, res |-> NoResult,
         txns |-> 0]

\* the sync and metasync flags an LMDB environment was opened with: both set
\* is the durable mode; NoFlags when no environment was opened
Durable == [sync |-> TRUE, metasync |-> TRUE]
NoFlags == [sync |-> FALSE, metasync |-> FALSE]

\* a map_size no data of the model comes near, as the default of 30 GiB
RoomyMapSize == 1024

\* the file can be opened and both store objects were constructed, the LMDB
\* one with the default map_size
EnvBuilt == [openable |-> TRUE, lmdb_obj |-> "built", sqlite_obj |-> "built",
             map_size |-> RoomyMapSize, lmdb_site |-> "api", lmdb_flags |-> Durable]

\* no loader script is running
NoLoader == [pc |-> "off", script |-> "", listing |-> <<>>, mapping_file |-> FALSE,
             batch_size |-> 0, i |-> 0, entries |-> <<>>, count |-> 0,
             mapped_count |-> 0, stored |-> 0, warned |-> 0, closed |-> 0,
             put_many_calls |-> <<>>, exc |-> "", entry |-> "", configured |-> 0,
             opened |-> <<>>]

\* both databases empty, no call made
\* query_molecule was not called
NoRequest == [pc |-> "none", inchi |-> <<>>, url |-> <<>>, target |-> <<>>,
              path |-> <<>>, param |-> <<>>, exc |-> "", status |-> 0]

\* a JSON object, as json.load gives it: a dict, here its set of
\* <<key, value>> items
Dict(items) == [type |-> "dict", items |-> items]

\* Config was not constructed
NoConfig == [pc |-> "none", file |-> [kind |-> "absent", value |-> Dict({})],
             environ |-> [lmdb_path |-> None, lmdb_api_port |-> None],
             config |-> Dict({}), exc |-> "", setting |-> "",
             res |-> [kind |-> "none", val |-> 0]]

EmptyStores ==
  /\ http = NoRequest
  /\ cfg = NoConfig
  /\ lmdb = [rows |-> {}, writer |-> ""]
  /\ run = [t \in Threads |-> Idle]
  /\ sqlite = [schema |-> FALSE, rows |-> {},
               txn |-> [c \in ConnIds |-> NoTxn],
               local_conn |-> [t \in Threads |-> 0],
               n_conn |-> 0,
               users |-> [c \in ConnIds |-> {}]]
  /\ call = NoCall
  /\ lres = NoResult
  /\ sres = NoResult

InitStores ==
  /\ env = EnvBuilt
  /\ ldr = NoLoader
  /\ EmptyStores

\* both stores driven by the same calls of one thread, as the test scripts do
Init == InitStores /\ setup = [engines |-> {"lmdb", "sqlite"}, callers |-> {"t1"}]

\* the SQLite store of a service whose calls come from several threads
InitThreads == InitStores /\ setup = [engines |-> {"sqlite"}, callers |-> Threads]

Done(l, s, c) ==
  /\ lmdb' = IF "lmdb" \in setup.engines THEN [lmdb EXCEPT !.rows = l.rows] ELSE lmdb
  /\ lres' = IF "lmdb" \in setup.engines THEN l.res ELSE NoResult
  /\ sqlite' = IF "sqlite" \in setup.engines THEN s.db ELSE sqlite
  /\ sres' = IF "sqlite" \in setup.engines THEN s.res ELSE NoResult
  /\ call' = c
  /\ UNCHANGED <<setup, run, env, ldr, http, cfg>>

init_db(t) ==
  Done([rows |-> lmdb.rows, res |-> NoResult], Sqlite_init_db(sqlite, t),
       [NoCall EXCEPT !.op = "init_db", !.t = t])

get_by_inchi(t, inchi) ==
  Done(Lmdb_get_by_inchi(lmdb.rows, inchi), Sqlite_get_by_inchi(sqlite, t, inchi),
       [NoCall EXCEPT !.op = "get_by_inchi", !.t = t, !.inchi = inchi])

get_many_by_inchi(t, inchis) ==
  Done(Lmdb_get_many_by_inchi(lmdb.rows, inchis),
       Sqlite_get_many_by_inchi(sqlite, t, inchis),
       [NoCall EXCEPT !.op = "get_many_by_inchi", !.t = t, !.inchis = inchis])

put(t, inchi, content) ==
  Done(Lmdb_put(lmdb.rows, inchi, content), Sqlite_put(sqlite, t, inchi, content),
       [NoCall EXCEPT !.op = "put", !.t = t, !.inchi = inchi, !.content = content])

put_many(t, items) ==
  Done(Lmdb_put_many(lmdb.rows, items), Sqlite_put_many(sqlite, t, items),
       [NoCall EXCEPT !.op = "put_many", !.t = t, !.items = items])

delete(t, inchi) ==
  Done(Lmdb_delete(lmdb.rows, inchi), Sqlite_delete(sqlite, t, inchi),
       [NoCall EXCEPT !.op = "delete", !.t = t, !.inchi = inchi])

\* the schema is made before the SQLite store is first used, as every user in
\* the repository does (STORE.init_db() right after construction)
Ready == "sqlite" \in setup.engines => sqlite.schema

Next ==
  \/ \E t \in setup.callers : init_db(t)
  \/ \E t \in setup.callers, k \in Keys : Ready /\ get_by_inchi(t, k)
  \/ \E t \in setup.callers, ks \in KeyLists : Ready /\ get_many_by_inchi(t, ks)
  \/ \E t \in setup.callers, k \in Keys, c \in Contents : Ready /\ put(t, k, c)
  \/ \E t \in setup.callers, its \in ItemLists : Ready /\ put_many(t, its)
  \/ \E t \in setup.callers, k \in Keys : Ready /\ delete(t, k)

Spec == Init /\ [][Next]_vars

SpecThreads == InitThreads /\ [][Next]_vars

----------------------------------------------------------------------------
(* Calls of several threads that overlap, on one store.  An LMDB call is   *)
(* the opening of its transaction, one step per key or pair, and the       *)
(* leaving of the `with` block; env.begin(write=True) waits for the writer *)
(* lock.  A SQLite put_many is one step per INSERT and the commit; a       *)
(* SQLite read is a single SELECT statement.                               *)

\* the batches and key lists of overlapping calls
ConcItemLists == {<<<<<<107>>, StrA>>, <<<<233>>, StrA>>>>,
                  <<<<<<107>>, EmptyStr>>, <<<<233>>, EmptyStr>>>>,
                  <<<<<<233>>, StrA>>, <<<<107>>, Surrogate>>>>}
ConcKeyLists == {<<<<107>>, <<233>>>>, <<<<233>>, <<107>>, <<233>>>>}

InitConc ==
  /\ InitStores
  /\ setup \in {[engines |-> {"lmdb"}, callers |-> Threads],
                [engines |-> {"sqlite"}, callers |-> Threads]}

Free(t) == run[t].pc \in {"idle", "returned"}

\* LMDB get_by_inchi / get_many_by_inchi: `with self.env.begin() as txn:`
lmdb_begin_read(t, op, inchis) ==
  /\ "lmdb" \in setup.engines /\ Free(t)
  /\ run' = [run EXCEPT ![t] = [Idle EXCEPT !.pc = "reading", !.op = op,
                                            !.inchis = inchis, !.i = 1,
                                            !.view = lmdb.rows, !.began = lmdb.rows]]
  /\ UNCHANGED <<lmdb, sqlite, setup, call, lres, sres, env, ldr, http, cfg>>

\* one `txn.get(inchi.encode())` and the decoding of what it gave
lmdb_read_step(t) ==
  /\ "lmdb" \in setup.engines
  /\ run[t].pc = "reading" /\ run[t].i <= Len(run[t].inchis)
  /\ LET inchi == run[t].inchis[run[t].i]
         data == TxnGet(SnapshotOf(run[t].view, lmdb.rows), Utf8Encode(inchi))
     IN run' = [run EXCEPT ![t].results = Append(@, <<inchi, DecodeIfData(data)>>),
                           ![t].i = @ + 1]
  /\ UNCHANGED <<lmdb, sqlite, setup, call, lres, sres, env, ldr, http, cfg>>

lmdb_read_exit(t) ==
  /\ "lmdb" \in setup.engines
  /\ run[t].pc = "reading" /\ run[t].i > Len(run[t].inchis)
  /\ run' = [run EXCEPT ![t].pc = "returned",
                        ![t].res = IF run[t].op = "get_by_inchi"
                                   THEN RetStr(run[t].results[1][2])
                                   ELSE RetList(run[t].results)]
  /\ UNCHANGED <<lmdb, sqlite, setup, call, lres, sres, env, ldr, http, cfg>>

\* the writer lock stays with the thread whose block raised
LockAfterExit_HeldOnError(t, exc) == IF exc = "" THEN "" ELSE t

\* the holder of the writer lock after thread t left
\* `with self.env.begin(write=True) as txn:`, by return or by exception: the
\* transaction is over either way, the lock is free
LockAfterExit(t, exc) == ""

\* LMDB put_many: `with self.env.begin(write=True) as txn:`
lmdb_begin_write(t, items) ==
  /\ "lmdb" \in setup.engines /\ Free(t)
  /\ lmdb.writer = ""
  /\ lmdb' = [lmdb EXCEPT !.writer = t]
  /\ run' = [run EXCEPT ![t] = [Idle EXCEPT !.pc = "writing", !.op = "put_many",
                                            !.items = items, !.i = 1,
                                            !.view = lmdb.rows, !.began = lmdb.rows,
                                            !.txns = 1]]
  /\ UNCHANGED <<sqlite, setup, call, lres, sres, env, ldr, http, cfg>>

\* one `txn.put(inchi.encode("utf-8"), content.encode("utf-8"))`; an encoding
\* error leaves the `with` block at once
lmdb_write_step(t) ==
  /\ "lmdb" \in setup.engines
  /\ run[t].pc = "writing" /\ run[t].i <= Len(run[t].items)
  /\ LET item == run[t].items[run[t].i]
         enc == EncodeError(item[2])
         e == IF enc # "" THEN enc
              ELSE PutError(run[t].view, Utf8Encode(item[1]), Utf8Encode(item[2]))
     IN IF e # ""
        THEN /\ lmdb' = [rows |-> TxnExit(lmdb.rows, run[t].view, e),
                         writer |-> LockAfterExit(t, e)]
             /\ run' = [run EXCEPT ![t].pc = "returned", ![t].res = Raised(e)]
        ELSE /\ run' = [run EXCEPT
                          ![t].view = TxnPut(@, Utf8Encode(item[1]), Utf8Encode(item[2])),
                          ![t].count = @ + 1,
                          ![t].i = @ + 1]
             /\ UNCHANGED lmdb
  /\ UNCHANGED <<sqlite, setup, call, lres, sres, env, ldr, http, cfg>>

lmdb_write_exit(t) ==
  /\ "lmdb" \in setup.engines
  /\ run[t].pc = "writing" /\ run[t].i > Len(run[t].items)
  /\ lmdb' = [rows |-> TxnExit(lmdb.rows, run[t].view, ""),
              writer |-> LockAfterExit(t, "")]
  /\ run' = [run EXCEPT ![t].pc = "returned",
                        ![t].res = IF run[t].op = "put"
                                   THEN RetBool(TxnPutResult(run[t].began,
                                                  Utf8Encode(run[t].items[1][1])))
                                   ELSE RetInt(run[t].count)]
  /\ UNCHANGED <<sqlite, setup, call, lres, sres, env, ldr, http, cfg>>

\* the rows connection c reads at this moment
SqlVisible(db, c) == IF db.txn[c].mode \in {"read", "write"} THEN db.txn[c].view ELSE db.rows

sqlite_init_db(t) ==
  /\ "sqlite" \in setup.engines /\ Free(t)
  /\ sqlite' = Sqlite_init_db(sqlite, t).db
  /\ run' = [run EXCEPT ![t] = [Idle EXCEPT !.pc = "returned", !.op = "init_db"]]
  /\ UNCHANGED <<lmdb, setup, call, lres, sres, env, ldr, http, cfg>>

\* SQLite get_by_inchi / get_many_by_inchi: one SELECT
sqlite_read(t, op, inchis) ==
  /\ "sqlite" \in setup.engines /\ sqlite.schema /\ Free(t)
  /\ LET r == IF op = "get_by_inchi" THEN Sqlite_get_by_inchi(sqlite, t, inchis[1])
              ELSE Sqlite_get_many_by_inchi(sqlite, t, inchis)
     IN /\ sqlite' = r.db
        /\ run' = [run EXCEPT ![t] = [Idle EXCEPT !.pc = "returned", !.op = op,
                                                  !.inchis = inchis, !.res = r.res,
                                                  !.began = sqlite.rows]]
  /\ UNCHANGED <<lmdb, setup, call, lres, sres, env, ldr, http, cfg>>

\* SQLite put_many: entering the `try:`
sqlite_begin_write(t, items) ==
  /\ "sqlite" \in setup.engines /\ sqlite.schema /\ Free(t)
  /\ run' = [run EXCEPT ![t] = [Idle EXCEPT !.pc = "writing", !.op = "put_many",
                                            !.items = items, !.i = 1,
                                            !.began = sqlite.rows]]
  /\ UNCHANGED <<lmdb, sqlite, setup, call, lres, sres, env, ldr, http, cfg>>

\* one `self.conn.execute("INSERT OR REPLACE ...")`; an error goes to the
\* except clause
sqlite_write_step(t) ==
  /\ "sqlite" \in setup.engines
  /\ run[t].pc = "writing" /\ run[t].i <= Len(run[t].items)
  /\ LET item == run[t].items[run[t].i]
         d0 == conn(sqlite, t)
         c == d0.local_conn[t]
         x == SqlDml(d0, c, "replace", item[1], item[2])
     IN IF x.exc # ""
        THEN /\ sqlite' = PutManyOnError(x.db, c)
             /\ run' = [run EXCEPT ![t].pc = "returned", ![t].res = Raised(x.exc)]
        ELSE /\ sqlite' = x.db
             /\ run' = [run EXCEPT ![t].count = @ + 1, ![t].i = @ + 1]
  /\ UNCHANGED <<lmdb, setup, call, lres, sres, env, ldr, http, cfg>>

\* `self.conn.commit()` after the loop
sqlite_write_exit(t) ==
  /\ "sqlite" \in setup.engines
  /\ run[t].pc = "writing" /\ run[t].i > Len(run[t].items)
  /\ LET d0 == conn(sqlite, t)
     IN sqlite' = SqlCommit(d0, d0.local_conn[t])
  /\ run' = [run EXCEPT ![t].pc = "returned", ![t].res = RetInt(run[t].count)]
  /\ UNCHANGED <<lmdb, setup, call, lres, sres, env, ldr, http, cfg>>

NextConc ==
  \/ \E t \in setup.callers, k \in Keys : lmdb_begin_read(t, "get_by_inchi", <<k>>)
  \/ \E t \in setup.callers, ks \in ConcKeyLists :
       lmdb_begin_read(t, "get_many_by_inchi", ks)
  \/ \E t \in setup.callers : lmdb_read_step(t)
  \/ \E t \in setup.callers : lmdb_read_exit(t)
  \/ \E t \in setup.callers, its \in ConcItemLists : lmdb_begin_write(t, its)
  \/ \E t \in setup.callers : lmdb_write_step(t)
  \/ \E t \in setup.callers : lmdb_write_exit(t)
  \/ \E t \in setup.callers : sqlite_init_db(t)
  \/ \E t \in setup.callers, k \in Keys : sqlite_read(t, "get_by_inchi", <<k>>)
  \/ \E t \in setup.callers, ks \in ConcKeyLists :
       sqlite_read(t, "get_many_by_inchi", ks)
  \/ \E t \in setup.callers, its \in ConcItemLists : sqlite_begin_write(t, its)
  \/ \E t \in setup.callers : sqlite_write_step(t)
  \/ \E t \in setup.callers : sqlite_write_exit(t)

SpecConc == InitConc /\ [][NextConc]_vars

----------------------------------------------------------------------------
(* What the stores hold, as a caller would state it                        *)

\* the content stored under inchi in a table, None when inchi has no row
StoredContent(rows, inchi) ==
  IF RowsOf(rows, Utf8Encode(inchi)) = {} THEN None
  ELSE Utf8Decode((CHOOSE r \in RowsOf(rows, Utf8Encode(inchi)) : TRUE)[2])

\* the answer get_many_by_inchi owes for inchis on a table
ExpectedMany(rows, inchis) ==
  [i \in 1..Len(inchis) |-> <<inchis[i], StoredContent(rows, inchis[i])>>]

\* the connection thread t was given
ConnOf(db, t) == db.local_conn[t]

----------------------------------------------------------------------------
(* Claims                                                                  *)

\* C1: round trip. When put(k, c) has returned and the next call is
\* get_by_inchi(k), then on each store where the put succeeded the get returns
\* exactly c.
C1_RoundTrip ==
  [][(call.op = "put" /\ call'.op = "get_by_inchi" /\ call'.inchi = call.inchi)
       => /\ (lres = RetBool(TRUE) => lres' = RetStr(call.content))
          /\ (sres = RetBool(TRUE) => sres' = RetStr(call.content))]_vars

\* C2: cross-engine parity. Every
\* get_by_inchi, get_many_by_inchi and delete gives the same result on the
\* LMDB store and on the SQLite store, both having received the same calls.
C2_Parity ==
  (call.op \in {"get_by_inchi", "get_many_by_inchi", "delete"})
    => lres = sres

\* C3: relational batch atomicity. When put_many raises on the SQLite store,
\* the committed rows are those committed before the call, the caller's
\* transaction is closed (rolled back), and what the caller reads next is
\* exactly those rows.
C3_SqliteBatchAtomic ==
  [][(call'.op = "put_many" /\ sres'.kind = "raise")
       => /\ sqlite'.rows = sqlite.rows
          /\ sqlite'.txn[ConnOf(sqlite', call'.t)] = NoTxn
          /\ SqlSelect(sqlite', ConnOf(sqlite', call'.t)).seen = sqlite.rows]_vars

\* C3 witness: a put_many of two pairs raised on the second (NOT NULL) after a
\* first pair that would have added a row
C3_Witness ==
  /\ call.op = "put_many" /\ sres = Raised(NotNull) /\ Len(call.items) = 2
  /\ call.items[1][2] \in GoodContents
  /\ <<Utf8Encode(call.items[1][1]), Utf8Encode(call.items[1][2])>> \notin sqlite.rows

\* C4: ordered-KV batch atomicity. When put_many raises on the LMDB store,
\* the committed rows are those committed before the call: no pair of the
\* batch, also none written before the failing pair, can be read afterwards.
C4_LmdbBatchAtomic ==
  [][(call'.op = "put_many" /\ lres'.kind = "raise")
       => /\ lmdb'.rows = lmdb.rows
          /\ \A k \in Keys :
               Lmdb_get_by_inchi(lmdb'.rows, k) = Lmdb_get_by_inchi(lmdb.rows, k)]_vars

\* C4 witness: a put_many of two pairs raised on the second (it cannot be
\* encoded) after a first pair that would have added a row
C4_Witness ==
  /\ call.op = "put_many" /\ lres = Raised("UnicodeEncodeError") /\ Len(call.items) = 2
  /\ call.items[1][2] \in GoodContents
  /\ <<Utf8Encode(call.items[1][1]), Utf8Encode(call.items[1][2])>> \notin lmdb.rows

\* C5: batch read order. get_many_by_inchi(keys) returns a list as long as
\* keys whose i-th element is (keys[i], the content stored under keys[i]), or
\* (keys[i], None) when keys[i] is not stored, on both stores.
C5_GetManyOrder ==
  call.op = "get_many_by_inchi"
    => /\ lres = RetList(ExpectedMany(lmdb.rows, call.inchis))
       /\ sres = RetList(ExpectedMany(sqlite.rows, call.inchis))

\* C6: upsert. In every state each key has at most one row in either store;
\* and when put(k, c1) has succeeded, a put(k, c2) followed by get_by_inchi(k)
\* returns c2 and leaves exactly one row for k.
C6_Upsert ==
  /\ [](\A k \in Keys : /\ Cardinality(RowsOf(lmdb.rows, Utf8Encode(k))) <= 1
                        /\ Cardinality(RowsOf(sqlite.rows, Utf8Encode(k))) <= 1)
  /\ [][(call'.op = "put" /\ lres' = RetBool(TRUE))
          => \A c2 \in GoodContents :
               LET second == Lmdb_put(lmdb'.rows, call'.inchi, c2)
               IN /\ second.res = RetBool(TRUE)
                  /\ Lmdb_get_by_inchi(second.rows, call'.inchi).res = RetStr(c2)
                  /\ Cardinality(RowsOf(second.rows, Utf8Encode(call'.inchi))) = 1]_vars
  /\ [][(call'.op = "put" /\ sres' = RetBool(TRUE))
          => \A c2 \in GoodContents :
               LET second == Sqlite_put(sqlite', call'.t, call'.inchi, c2)
               IN /\ second.res = RetBool(TRUE)
                  /\ Sqlite_get_by_inchi(second.db, call'.t, call'.inchi).res = RetStr(c2)
                  /\ Cardinality(RowsOf(second.db.rows, Utf8Encode(call'.inchi))) = 1]_vars

\* C7: delete completeness. When put(k, c) has succeeded and the next call is
\* delete(k), the delete returns True; a get_by_inchi(k) after it returns None
\* and a second delete(k) returns False.
C7_DeleteComplete ==
  /\ [][("lmdb" \in setup.engines /\ call.op = "put" /\ lres = RetBool(TRUE)
           /\ call'.op = "delete" /\ call'.inchi = call.inchi)
          => /\ lres' = RetBool(TRUE)
             /\ Lmdb_get_by_inchi(lmdb'.rows, call'.inchi).res = RetStr(None)
             /\ Lmdb_delete(lmdb'.rows, call'.inchi).res = RetBool(FALSE)]_vars
  /\ [][("sqlite" \in setup.engines /\ call.op = "put" /\ sres = RetBool(TRUE)
           /\ call'.op = "delete" /\ call'.inchi = call.inchi)
          => /\ sres' = RetBool(TRUE)
             /\ LET got == Sqlite_get_by_inchi(sqlite', call'.t, call'.inchi)
                IN /\ got.res = RetStr(None)
                   /\ Sqlite_delete(got.db, call'.t, call'.inchi).res = RetBool(FALSE)]_vars

\* C8: NotFound is a value. get_by_inchi(k) and delete(k) for a key k that has
\* no committed row return None and False without raising, and leave the
\* committed rows as they were.
C8_NotFoundIsValue ==
  /\ [][("lmdb" \in setup.engines /\ call'.op \in {"get_by_inchi", "delete"}
           /\ RowsOf(lmdb.rows, Utf8Encode(call'.inchi)) = {})
          => /\ lres' = (IF call'.op = "delete" THEN RetBool(FALSE) ELSE RetStr(None))
             /\ lmdb'.rows = lmdb.rows]_vars
  /\ [][("sqlite" \in setup.engines /\ call'.op \in {"get_by_inchi", "delete"}
           /\ RowsOf(sqlite.rows, Utf8Encode(call'.inchi)) = {})
          => /\ sres' = (IF call'.op = "delete" THEN RetBool(FALSE) ELSE RetStr(None))
             /\ sqlite'.rows = sqlite.rows]_vars

\* C9: no partial batch is visible. With put_many overlapping reads of other
\* threads, the committed rows of either store only ever change by the whole
\* batch of one put_many that returns its count, and every get_by_inchi and
\* get_many_by_inchi returns what the call gives on one committed state: the
\* rows that were committed when its transaction began.
RECURSIVE ApplyBatch(_, _)
ApplyBatch(rows, items) ==
  IF items = <<>> THEN rows
  ELSE ApplyBatch((rows \ RowsOf(rows, Utf8Encode(Head(items)[1])))
                    \cup {<<Utf8Encode(Head(items)[1]), Utf8Encode(Head(items)[2])>>},
                  Tail(items))

WholeBatch(before, after) ==
  \E t \in Threads :
    /\ run[t].pc = "writing" /\ run'[t].pc = "returned"
    /\ run'[t].res = RetInt(Len(run[t].items))
    /\ after = ApplyBatch(before, run[t].items)

C9_NoPartialBatch ==
  /\ [][lmdb'.rows # lmdb.rows => WholeBatch(lmdb.rows, lmdb'.rows)]_vars
  /\ [][sqlite'.rows # sqlite.rows => WholeBatch(sqlite.rows, sqlite'.rows)]_vars
  /\ [](\A t \in Threads :
          (run[t].pc = "returned" /\ run[t].op = "get_by_inchi")
            => run[t].res = (IF "lmdb" \in setup.engines
                             THEN Lmdb_get_by_inchi(run[t].began, run[t].inchis[1]).res
                             ELSE RetStr(StoredContent(run[t].began, run[t].inchis[1]))))
  /\ [](\A t \in Threads :
          (run[t].pc = "returned" /\ run[t].op = "get_many_by_inchi")
            => run[t].res = (IF "lmdb" \in setup.engines
                             THEN Lmdb_get_many_by_inchi(run[t].began, run[t].inchis).res
                             ELSE RetList(ExpectedMany(run[t].began, run[t].inchis))))

\* C9 witness: a get_many_by_inchi of two keys has returned the rows of the
\* state it began on, while the put_many of another thread committed both its
\* pairs after the read began
C9_Witness ==
  \E r \in Threads, w \in Threads :
    /\ r # w
    /\ run[r].pc = "returned" /\ run[r].op = "get_many_by_inchi"
    /\ run[w].pc = "returned" /\ run[w].op = "put_many" /\ run[w].res = RetInt(2)
    /\ run[w].began = run[r].began
    /\ lmdb.rows = ApplyBatch(run[r].began, run[w].items)
    /\ lmdb.rows # run[r].began
    /\ run[r].res = RetList(ExpectedMany(run[r].began, run[r].inchis))
    /\ \A i \in 1..2 : StoredContent(lmdb.rows, run[r].inchis[i]) # run[r].res.val[i][2]

\* C10 as written: whenever a call of a thread has returned or raised, that
\* thread has its connection (it was created by the thread's first call at the
\* latest).
C10_FirstOperationConnects ==
  call.op # "none" => sqlite.local_conn[call.t] # 0

\* C10, amended: a thread's connection is opened by that thread's own call, by
\* its first call other than a get_many_by_inchi of no keys (which returns []
\* without touching a connection); once a thread has a connection it keeps that
\* one; one connection is opened per thread that has one; and no connection is
\* handed to two threads.
C10_ConnPerThread ==
  /\ [][(call'.op # "get_many_by_inchi" \/ call'.inchis # <<>>)
          => sqlite'.local_conn[call'.t] # 0]_vars
  /\ [][\A t \in Threads :
          (sqlite.local_conn[t] = 0 /\ sqlite'.local_conn[t] # 0) => call'.t = t]_vars
  /\ [][\A t \in Threads :
          sqlite.local_conn[t] # 0 => sqlite'.local_conn[t] = sqlite.local_conn[t]]_vars
  /\ [](sqlite.n_conn = Cardinality({t \in Threads : sqlite.local_conn[t] # 0}))
  /\ [](\A c \in ConnIds : Cardinality(sqlite.users[c]) <= 1)

\* C10 witness: both threads have made calls, each on a connection of its own,
\* and the last call was made on a connection that already existed
C10_Witness ==
  /\ \A t \in Threads : sqlite.local_conn[t] # 0
  /\ sqlite.n_conn = 2
  /\ call.op = "put" /\ sres = RetBool(TRUE)
  /\ \A t \in Threads : sqlite.users[sqlite.local_conn[t]] = {t}

----------------------------------------------------------------------------
(* The bulk loaders: build_lmdb.py (its store class comes from             *)
(* backend/lmdb.py) and moldb/builder/sqlite.py (store class of            *)
(* core/sqlite.py).  A run is the record ldr:                              *)
(*   listing        what os.listdir(xyz_dir) gave, in its order            *)
(*   mapping_file   whether the mapping CSV exists                         *)
(*   batch_size, entries, count, mapped_count (`processed` of              *)
(*   build_lmdb.py), stored: the locals of main                            *)
(*   i              the position of the for loop in the listing            *)
(*   warned         the "No InChI mapping found" lines printed             *)
(*   closed         the calls of store.close()                             *)
(*   put_many_calls the batches handed to store.put_many, in order         *)
(*   exc            the exception that ended main, "" when none            *)

\* the longest directory listing, and the largest batch size, of a run
MaxFiles == 3
MaxBatchSize == 2

\* file names are strings of characters
DotXyz == <<".", "x", "y", "z">>

\* the files a directory can hold: A.xyz, B.xyz, C.xyz, D.xyz, E.xyz, n.txt
FileNames == {<<"A">> \o DotXyz, <<"B">> \o DotXyz, <<"C">> \o DotXyz,
              <<"D">> \o DotXyz, <<"E">> \o DotXyz, <<"n", ".", "t", "x", "t">>}

\* directory listings: each name at most once, in any order
RECURSIVE ListingsUpTo(_)
ListingsUpTo(n) ==
  IF n = 0 THEN {<<>>}
  ELSE LET shorter == ListingsUpTo(n - 1)
       IN shorter \cup {Append(l, f) : l \in {q \in shorter : Len(q) = n - 1},
                                       f \in FileNames}
Listings == {l \in ListingsUpTo(MaxFiles) :
               \A a \in 1..Len(l), b \in 1..Len(l) : l[a] = l[b] => a = b}

\* filename.endswith(suffix)
EndsWith(name, suffix) ==
  /\ Len(name) >= Len(suffix)
  /\ SubSeq(name, Len(name) - Len(suffix) + 1, Len(name)) = suffix

\* filename[:-4]
WithoutLast4(name) == SubSeq(name, 1, Len(name) - 4)

\* the rows of the mapping CSV (InChIKey column, InChI column): A and E map
\* to "k", B and D to "é"; C has no row
MappingRows == {<<<<"A">>, <<107>>>>, <<<<"B">>, <<233>>>>,
                <<<<"D">>, <<233>>>>, <<<<"E">>, <<107>>>>}

\* inchikey_to_inchi after the mapping was loaded: empty without the file
LoadMapping(mapping_file) == IF mapping_file THEN MappingRows ELSE {}

\* inchikey_to_inchi.get(inchikey)
MappingGet(mapping, inchikey) ==
  IF \E r \in mapping : r[1] = inchikey
  THEN (CHOOSE r \in mapping : r[1] = inchikey)[2]
  ELSE None

\* no key counts as missing
NotInchi_Never(inchi) == FALSE

\* `not inchi`
NotInchi(inchi) == inchi = None \/ inchi = <<>>

\* open(filepath, "r") and f.read(): D.xyz cannot be read; A.xyz holds "A",
\* B.xyz is empty, the others hold "B"
ReadFile(name) ==
  IF name = <<"D">> \o DotXyz THEN [exc |-> "OSError", content |-> None]
  ELSE IF name = <<"A">> \o DotXyz THEN [exc |-> "", content |-> StrA]
  ELSE IF name = <<"B">> \o DotXyz THEN [exc |-> "", content |-> EmptyStr]
  ELSE [exc |-> "", content |-> <<66>>]

\* the parameters LMDBMoleculeStore.__init__ of backend/lmdb.py accepts, and
\* the methods that class has
BackendInitParams == {"db_path", "map_size"}
BackendMethods == {"get_by_inchi", "put", "delete", "close"}

\* the keyword arguments build_lmdb.py constructs its store with
LoaderInitKeywords == {"map_size", "sync", "writemap"}

\* calling a function with keyword arguments: TypeError for a keyword that
\* is no parameter
CallError(params, keywords) == IF keywords \subseteq params THEN "" ELSE "TypeError"

\* the thread a loader runs on
LoaderThread == "t1"
\* another writer of the same database file
OtherThread == "t2"

\* the batch is flushed at batch_size + 1 pairs
FlushDue_Late(entries, batch_size) == Len(entries) > batch_size

\* `if len(entries) >= batch_size:`
FlushDue(entries, batch_size) == Len(entries) >= batch_size

\* the remaining pairs are dropped
FinalFlushDue_Never(entries) == FALSE

\* `if entries:` after the loop
FinalFlushDue(entries) == entries # <<>>

\* a file that cannot be read is stored with no content
OnReadError_Appends(l, inchi) ==
  [l EXCEPT !.entries = Append(@, <<inchi, EmptyStr>>), !.mapped_count = @ + 1,
            !.pc = "appended"]

\* `except Exception as e: print(...); continue`
OnReadError(l, inchi) == [l EXCEPT !.i = @ + 1]

\* `store.put_many(entries)` of the running script: [lmdb, db, res]
LoaderPutMany(l) ==
  IF l.script = "lmdb"
  THEN IF "put_many" \in BackendMethods
       THEN LET r == Lmdb_put_many(lmdb.rows, l.entries)
            IN [lmdb |-> [lmdb EXCEPT !.rows = r.rows], db |-> sqlite, res |-> r.res]
       ELSE [lmdb |-> lmdb, db |-> sqlite, res |-> Raised("AttributeError")]
  ELSE LET r == Sqlite_put_many(sqlite, LoaderThread, l.entries)
       IN [lmdb |-> lmdb, db |-> r.db, res |-> r.res]

\* main's batch_size when the caller gives none: `batch_size: int = 50000`,
\* here a value above every batch size the model configures
MainDefaultBatchSize == MaxBatchSize + 1

\* the batch_size main runs with.  A caller of main passes it; the script's
\* command line parses --batch_size and then calls main without it
MainBatchSize(entry, configured) ==
  IF entry = "call" THEN configured ELSE MainDefaultBatchSize

\* a run about to start: any listing, with or without the mapping file, the
\* output file openable or not.  build_lmdb.py is started by a call of main
\* or from the command line, with a configured batch size;
\* moldb/builder/sqlite.py has no batch size to configure, its threshold is
\* fixed in the code
InitLoad ==
  /\ EmptyStores
  /\ setup = [engines |-> {"sqlite"}, callers |-> Threads]
  /\ env \in {[openable |-> o, lmdb_obj |-> "none", sqlite_obj |-> "none",
               map_size |-> RoomyMapSize, lmdb_site |-> "none",
               lmdb_flags |-> NoFlags] :
                o \in BOOLEAN}
  /\ ldr \in {[NoLoader EXCEPT !.pc = "start", !.script = "sqlite", !.listing = l,
                               !.mapping_file = m, !.batch_size = b,
                               !.entry = "call"] :
                l \in Listings, m \in BOOLEAN, b \in 1..MaxBatchSize}
          \cup
             {[NoLoader EXCEPT !.pc = "start", !.script = "lmdb", !.listing = l,
                               !.mapping_file = m, !.entry = e, !.configured = b] :
                l \in Listings, m \in BOOLEAN, e \in {"call", "cli"},
                b \in 1..MaxBatchSize}

\* build_lmdb.py: `store = LMDBMoleculeStore(output_path, map_size=map_size,
\* sync=False, writemap=True)`, then the mapping, the listing and the counters
ldr_open_lmdb ==
  /\ ldr.pc = "start" /\ ldr.script = "lmdb"
  /\ LET e == CallError(BackendInitParams, LoaderInitKeywords)
         l == [ldr EXCEPT !.batch_size = MainBatchSize(ldr.entry, ldr.configured)]
     IN IF e # ""
        THEN /\ ldr' = [l EXCEPT !.pc = "aborted", !.exc = e]
             /\ UNCHANGED env
        ELSE IF ~env.openable
        THEN /\ ldr' = [l EXCEPT !.pc = "aborted", !.exc = "lmdb.Error"]
             /\ UNCHANGED env
        ELSE /\ ldr' = [l EXCEPT !.pc = "loop", !.i = 1]
             /\ env' = [env EXCEPT !.lmdb_obj = "built"]
  /\ UNCHANGED <<lmdb, sqlite, setup, call, lres, sres, run, http, cfg>>

\* moldb/builder/sqlite.py: `store = SQLiteMoleculeStore(output_path)`,
\* `store.init_db()`, then the mapping and the counters
ldr_open_sqlite ==
  /\ ldr.pc = "start" /\ ldr.script = "sqlite"
  /\ env' = [env EXCEPT !.sqlite_obj = "built"]
  /\ LET r == Sqlite_init_db(sqlite, LoaderThread)
     IN /\ sqlite' = r.db
        /\ ldr' = IF r.res.kind = "raise"
                  THEN [ldr EXCEPT !.pc = "aborted", !.exc = r.res.exc]
                  ELSE [ldr EXCEPT !.pc = "loop", !.i = 1]
  /\ UNCHANGED <<lmdb, setup, call, lres, sres, run, http, cfg>>

\* one file of the for loop, up to `entries.append((inchi, content))` and the
\* counter after it
ldr_next_file ==
  /\ ldr.pc = "loop" /\ ldr.i <= Len(ldr.listing)
  /\ LET filename == ldr.listing[ldr.i]
         inchikey == WithoutLast4(filename)
         inchi == MappingGet(LoadMapping(ldr.mapping_file), inchikey)
         f == ReadFile(filename)
         tried == [ldr EXCEPT !.opened = Append(@, filename)]
     IN ldr' = IF ~EndsWith(filename, DotXyz) THEN [ldr EXCEPT !.i = @ + 1]
               ELSE IF NotInchi(inchi)
                 THEN [ldr EXCEPT !.i = @ + 1,
                                  !.warned = IF ldr.script = "sqlite" THEN @ + 1 ELSE @]
               ELSE IF f.exc # "" THEN OnReadError(tried, inchi)
               ELSE [tried EXCEPT !.entries = Append(@, <<inchi, f.content>>),
                                  !.mapped_count = @ + 1,
                                  !.pc = "appended"]
  /\ UNCHANGED <<lmdb, sqlite, setup, call, lres, sres, run, env, http, cfg>>

\* `if len(entries) >= batch_size:` taken: `written = store.put_many(entries)`,
\* `entries = []`; an exception of put_many leaves main
ldr_flush ==
  /\ ldr.pc = "appended" /\ FlushDue(ldr.entries, ldr.batch_size)
  /\ LET r == LoaderPutMany(ldr)
     IN /\ lmdb' = r.lmdb
        /\ sqlite' = r.db
        /\ ldr' = IF r.res.kind = "raise"
                  THEN [ldr EXCEPT !.pc = "aborted", !.exc = r.res.exc,
                                   !.put_many_calls = Append(@, ldr.entries)]
                  ELSE [ldr EXCEPT !.pc = "flushed", !.entries = <<>>,
                                   !.stored = IF ldr.script = "lmdb"
                                              THEN @ + r.res.val ELSE @,
                                   !.put_many_calls = Append(@, ldr.entries)]
  /\ UNCHANGED <<setup, call, lres, sres, run, env, http, cfg>>

\* the end of the loop body (`count += 1` in moldb/builder/sqlite.py), with
\* or without a flush before it
ldr_count ==
  /\ \/ ldr.pc = "flushed"
     \/ ldr.pc = "appended" /\ ~FlushDue(ldr.entries, ldr.batch_size)
  /\ ldr' = [ldr EXCEPT !.pc = "loop", !.i = @ + 1,
                        !.count = IF ldr.script = "sqlite" THEN @ + 1 ELSE @]
  /\ UNCHANGED <<lmdb, sqlite, setup, call, lres, sres, run, env, http, cfg>>

\* after the loop: `if entries:` the final put_many, the "Done" line, and
\* `store.close()` in build_lmdb.py
ldr_final ==
  /\ ldr.pc = "loop" /\ ldr.i > Len(ldr.listing)
  /\ IF FinalFlushDue(ldr.entries)
     THEN LET r == LoaderPutMany(ldr)
          IN /\ lmdb' = r.lmdb
             /\ sqlite' = r.db
             /\ ldr' = IF r.res.kind = "raise"
                       THEN [ldr EXCEPT !.pc = "aborted", !.exc = r.res.exc,
                                        !.put_many_calls = Append(@, ldr.entries)]
                       ELSE [ldr EXCEPT !.pc = "done",
                                        !.stored = IF ldr.script = "lmdb"
                                                   THEN @ + r.res.val ELSE @,
                                        !.closed = IF ldr.script = "lmdb"
                                                   THEN @ + 1 ELSE @,
                                        !.put_many_calls = Append(@, ldr.entries)]
     ELSE /\ ldr' = [ldr EXCEPT !.pc = "done",
                                !.closed = IF ldr.script = "lmdb" THEN @ + 1 ELSE @]
          /\ UNCHANGED <<lmdb, sqlite>>
  /\ UNCHANGED <<setup, call, lres, sres, run, env, http, cfg>>

\* the numbers of the last line main prints:
\* "Done. Total: {count} files, {mapped_count} InChIs stored." and
\* "Done. Total: {processed} files processed, {stored} stored ..."
FinalReport(l) ==
  IF l.script = "sqlite" THEN {l.count, l.mapped_count} ELSE {l.mapped_count, l.stored}

\* the batches another writer of the same file commits while the loader runs
OtherBatches == {<<<<<<233>>, StrA>>, <<<<107>>, StrA>>>>}

\* the loader alone or beside another writer: every step of the scripts, and
\* the put_many of a second thread on the same SQLite file
LoaderRunning == ldr.script = "sqlite" /\ ldr.pc \in {"loop", "appended", "flushed"}

NextLoad ==
  \/ ldr_open_lmdb
  \/ ldr_open_sqlite
  \/ ldr_next_file
  \/ ldr_flush
  \/ ldr_count
  \/ ldr_final
  \/ \E its \in OtherBatches : LoaderRunning /\ sqlite_begin_write(OtherThread, its)
  \/ LoaderRunning /\ sqlite_write_step(OtherThread)
  \/ LoaderRunning /\ sqlite_write_exit(OtherThread)

SpecLoad == InitLoad /\ [][NextLoad]_vars

----------------------------------------------------------------------------
(* Claims about the bulk loaders                                           *)

\* what a run was given, as a caller would state it: the pair of listing
\* entry j when that file is a content file with a mapping entry that can
\* be read
IsContentFile(l, j) == EndsWith(l.listing[j], DotXyz)
HasMapping(l, j) ==
  ~NotInchi(MappingGet(LoadMapping(l.mapping_file), WithoutLast4(l.listing[j])))
IsLoadable(l, j) ==
  IsContentFile(l, j) /\ HasMapping(l, j) /\ ReadFile(l.listing[j]).exc = ""
PairOf(l, j) ==
  <<MappingGet(LoadMapping(l.mapping_file), WithoutLast4(l.listing[j])),
    ReadFile(l.listing[j]).content>>

\* the pairs of the loadable files among the first n of the listing, in order
RECURSIVE LoadablePairs(_, _)
LoadablePairs(l, n) ==
  IF n = 0 THEN <<>>
  ELSE IF IsLoadable(l, n) THEN Append(LoadablePairs(l, n - 1), PairOf(l, n))
  ELSE LoadablePairs(l, n - 1)

\* the batches of a sequence of put_many calls, joined
RECURSIVE Flatten(_)
Flatten(calls) == IF calls = <<>> THEN <<>> ELSE Head(calls) \o Flatten(Tail(calls))

\* the content files of the listing that have no mapping entry
Unmapped(l) == {j \in 1..Len(l.listing) : IsContentFile(l, j) /\ ~HasMapping(l, j)}

Ended(l) == l.pc \in {"done", "aborted"}

\* C11: loader stored count. When a run whose output file can be opened has
\* ended, the pairs it handed to put_many are as many as the listed content
\* files that have a mapping entry and can be read, whatever the batch size.
C11_StoredCount ==
  (Ended(ldr) /\ env.openable)
    => Len(Flatten(ldr.put_many_calls)) = Len(LoadablePairs(ldr, Len(ldr.listing)))

\* C12: loader skip count. When a run is done, the totals it reports include
\* the number of content files that had no mapping entry.
C12_SkipCount ==
  ldr.pc = "done" => Cardinality(Unmapped(ldr)) \in FinalReport(ldr)

\* C13: loader buffer bound. The buffer never holds more than batch_size
\* pairs; a buffer of batch_size pairs is handed to put_many by the next step
\* of the run, once, and is empty when that put_many has returned; and every
\* put_many call before the final one was given exactly batch_size pairs.
C13_BufferBound ==
  /\ [](ldr.pc # "off" => Len(ldr.entries) <= ldr.batch_size)
  /\ [][(ldr' # ldr /\ ldr.pc = "appended" /\ Len(ldr.entries) = ldr.batch_size)
          => /\ ldr'.put_many_calls = Append(ldr.put_many_calls, ldr.entries)
             /\ ldr'.pc \in {"flushed", "aborted"}
             /\ (ldr'.pc = "flushed" => ldr'.entries = <<>>)]_vars
  /\ [](\A j \in 1..Len(ldr.put_many_calls) :
          (j < Len(ldr.put_many_calls) \/ ldr.pc \in {"loop", "appended", "flushed"})
            => Len(ldr.put_many_calls[j]) = ldr.batch_size)

\* C13 witness: with batch size 2 a full buffer was flushed and is empty, and
\* the run goes on
C13_Witness ==
  /\ ldr.pc = "flushed" /\ ldr.batch_size = 2 /\ ldr.entries = <<>>
  /\ Len(ldr.put_many_calls) = 1 /\ Len(ldr.put_many_calls[1]) = 2
  /\ ldr.i < Len(ldr.listing)

\* C14: loader final flush. When the listing is exhausted with pairs in the
\* buffer, the next step of the run hands exactly those pairs to put_many;
\* and at DONE the batches handed to put_many, joined in call order, are the
\* accumulated pairs, each once and in listing order.
C14_FinalFlush ==
  /\ [][(ldr' # ldr /\ ldr.pc = "loop" /\ ldr.i > Len(ldr.listing)
           /\ ldr.entries # <<>>)
          => ldr'.put_many_calls = Append(ldr.put_many_calls, ldr.entries)]_vars
  /\ [](ldr.pc = "done"
          => Flatten(ldr.put_many_calls) = LoadablePairs(ldr, Len(ldr.listing)))

\* C14 witness: a run is done whose three pairs went out as one full batch of
\* two and a final batch of one
C14_Witness ==
  /\ ldr.pc = "done" /\ ldr.batch_size = 2
  /\ Len(ldr.put_many_calls) = 2
  /\ Len(ldr.put_many_calls[1]) = 2 /\ Len(ldr.put_many_calls[2]) = 1

\* C15: loader read failure. When the file the loop is at has a mapping entry
\* but cannot be read, the step of the run leaves the buffer, the counters
\* and the put_many calls as they were and moves on to the next file.
C15_ReadFailureSkips ==
  [][(ldr' # ldr /\ ldr.pc = "loop" /\ ldr.i <= Len(ldr.listing)
        /\ IsContentFile(ldr, ldr.i) /\ HasMapping(ldr, ldr.i)
        /\ ReadFile(ldr.listing[ldr.i]).exc # "")
       => ldr' = [ldr EXCEPT !.i = ldr.i + 1,
                             !.opened = Append(@, ldr.listing[ldr.i])]]_vars

\* C15 witness: a run is done that met the unreadable D.xyz first and stored
\* the file listed after it
C15_Witness ==
  /\ ldr.pc = "done" /\ ldr.mapping_file
  /\ Len(ldr.listing) = 2 /\ ldr.listing[1] = <<"D">> \o DotXyz
  /\ ldr.put_many_calls = <<<<PairOf(ldr, 2)>>>>
  /\ ldr.mapped_count = 1 /\ ldr.count = 1

\* C16: loader termination. A run ends early only when its store could not
\* be constructed or opened.
C16_NoAbortAfterOpen ==
  ldr.pc = "aborted" => ldr.exc \in {CantOpen, "lmdb.Error", "TypeError"}

\* C17: store release. When a run that opened its store has ended, the store
\* was closed exactly once.
C17_ReleasedOnce ==
  (Ended(ldr) /\ (env.lmdb_obj = "built" \/ sqlite.local_conn[LoaderThread] # 0))
    => ldr.closed = 1

----------------------------------------------------------------------------
(* An LMDB store opened with a small map_size                              *)

\* the map_size of the small store, in bytes of data
SmallMapSize == 3

\* LMDBMoleculeStore(db_path, map_size=SmallMapSize), one caller
InitCap ==
  /\ EmptyStores
  /\ ldr = NoLoader
  /\ env = [EnvBuilt EXCEPT !.map_size = SmallMapSize]
  /\ setup = [engines |-> {"lmdb"}, callers |-> {"t1"}]

SpecCap == InitCap /\ [][Next]_vars

\* the pairs a put or put_many call was asked to write
CallItems(c) == IF c.op = "put" THEN <<<<c.inchi, c.content>>>> ELSE c.items

\* every pair can be encoded, and the rows with some first pairs of the call
\* written hold more data than the map
Exceeds(rows, items) ==
  /\ \A j \in 1..Len(items) : EncodeError(items[j][2]) = ""
  /\ \E j \in 1..Len(items) :
       RowBytes(ApplyBatch(rows, SubSeq(items, 1, j))) > env.map_size

\* every pair can be encoded, and the rows never hold more data than the map
\* while the pairs are written one after the other
Fits(rows, items) ==
  /\ \A j \in 1..Len(items) : EncodeError(items[j][2]) = ""
  /\ \A j \in 1..Len(items) :
       RowBytes(ApplyBatch(rows, SubSeq(items, 1, j))) <= env.map_size

\* C18: CapacityExceeded. A put or put_many on the LMDB store whose data
\* would exceed the map size raises lmdb.MapFullError and leaves the store as
\* it was, no pair of the call stored; the committed data never exceeds the
\* map; and the store stays usable: right after such a failure a put or
\* put_many that fits returns normally and its pairs are stored.
C18_CapacityExceeded ==
  /\ [][(call'.op \in {"put", "put_many"} /\ Exceeds(lmdb.rows, CallItems(call')))
          => (lres' = Raised(MapFull) /\ lmdb' = lmdb)]_vars
  /\ [](RowBytes(lmdb.rows) <= env.map_size)
  /\ [][(lres = Raised(MapFull) /\ call'.op \in {"put", "put_many"}
           /\ Fits(lmdb.rows, CallItems(call')))
          => /\ lres' = IF call'.op = "put" THEN RetBool(TRUE)
                       ELSE RetInt(Len(call'.items))
             /\ lmdb'.rows = ApplyBatch(lmdb.rows, CallItems(call'))
             /\ lmdb'.writer = ""]_vars

\* C18 witness: a put_many of two pairs raised MapFullError on a store that
\* holds a row, and its first pair alone would have fitted
C18_Witness ==
  /\ call.op = "put_many" /\ lres = Raised(MapFull) /\ Len(call.items) = 2
  /\ lmdb.rows # {}
  /\ Fits(lmdb.rows, <<call.items[1]>>)
  /\ <<Utf8Encode(call.items[1][1]), Utf8Encode(call.items[1][2])>> \notin lmdb.rows

----------------------------------------------------------------------------
(* Constructing the stores on a file that can or cannot be opened          *)

LmdbOpenError == "lmdb.Error"

\* nothing constructed yet; the file can be opened or not
InitOpen ==
  /\ EmptyStores
  /\ ldr = NoLoader
  /\ env \in {[openable |-> o, lmdb_obj |-> "none", sqlite_obj |-> "none",
               map_size |-> RoomyMapSize, lmdb_site |-> "none",
               lmdb_flags |-> NoFlags] : o \in BOOLEAN}
  /\ setup = [engines |-> {}, callers |-> {"t1"}]

\* the places that construct an LMDBMoleculeStore: the serving API of the
\* package, the stand-alone service, the tests, the bulk loader, and a caller
\* of the package's class that states the sync argument either way
RepoSites == {"api", "service", "test", "loader"}
ServingSites == {"api", "service"}
LmdbSites == RepoSites \cup {"sync_true", "sync_false"}

\* the class a site constructs: moldb.core.lmdb or backend.lmdb
SiteClass(site) == IF site \in {"api", "sync_true", "sync_false"} THEN "core" ELSE "backend"

\* the keyword arguments the site passes
SiteKeywords(site) ==
  CASE site \in ServingSites -> {}
    [] site = "test" -> {"map_size"}
    [] site = "loader" -> LoaderInitKeywords
    [] OTHER -> {"sync"}

\* the value of the sync argument, where the site passes one
SiteSync(site) == site = "sync_true"

CoreInitParams == {"db_path", "map_size", "sync", "writemap"}
InitParams(cls) == IF cls = "core" THEN CoreInitParams ELSE BackendInitParams

\* metasync stays on whatever sync is
OpenFlags_MetasyncOn(cls, keywords, sync) ==
  IF cls = "core" /\ "sync" \in keywords
  THEN [sync |-> sync, metasync |-> TRUE] ELSE Durable

\* the flags __init__ hands to lmdb.open.  moldb.core.lmdb: `sync: bool = True`,
\* `sync=sync, metasync=sync`; backend.lmdb: `sync=True, metasync=True`
OpenFlags(cls, keywords, sync) ==
  IF cls = "core"
  THEN LET s == IF "sync" \in keywords THEN sync ELSE TRUE
       IN [sync |-> s, metasync |-> s]
  ELSE Durable

\* LMDBMoleculeStore(db_path, ...) at a site: a keyword the class does not
\* declare is a TypeError; __init__ calls lmdb.open, which raises when the
\* file cannot be opened or locked
new_lmdb(site) ==
  /\ env.lmdb_obj = "none"
  /\ LET e == CallError(InitParams(SiteClass(site)), SiteKeywords(site))
     IN IF e # ""
        THEN /\ env' = [env EXCEPT !.lmdb_obj = "raised", !.lmdb_site = site]
             /\ lres' = Raised(e)
             /\ UNCHANGED setup
        ELSE IF env.openable
        THEN /\ env' = [env EXCEPT !.lmdb_obj = "built", !.lmdb_site = site,
                                   !.lmdb_flags = OpenFlags(SiteClass(site),
                                                            SiteKeywords(site),
                                                            SiteSync(site))]
             /\ setup' = [setup EXCEPT !.engines = @ \cup {"lmdb"}]
             /\ lres' = NoResult
        ELSE /\ env' = [env EXCEPT !.lmdb_obj = "raised", !.lmdb_site = site]
             /\ lres' = Raised(LmdbOpenError)
             /\ UNCHANGED setup
  /\ call' = [NoCall EXCEPT !.op = "__init__", !.t = "t1"]
  /\ UNCHANGED <<lmdb, sqlite, sres, run, ldr, http, cfg>>

\* SQLiteMoleculeStore(db_path): __init__ stores the path and makes the
\* thread-local holder; it does not touch the file
new_sqlite ==
  /\ env.sqlite_obj = "none"
  /\ env' = [env EXCEPT !.sqlite_obj = "built"]
  /\ setup' = [setup EXCEPT !.engines = @ \cup {"sqlite"}]
  /\ sres' = NoResult
  /\ call' = [NoCall EXCEPT !.op = "__init__", !.t = "t1"]
  /\ UNCHANGED <<lmdb, sqlite, lres, run, ldr, http, cfg>>

\* the constructors, then any method of the stores that were constructed
NextOpen ==
  \/ \E site \in LmdbSites : new_lmdb(site)
  \/ new_sqlite
  \/ \E t \in setup.callers : setup.engines # {} /\ init_db(t)
  \/ \E t \in setup.callers, k \in Keys : setup.engines # {} /\ get_by_inchi(t, k)
  \/ \E t \in setup.callers, ks \in KeyLists :
       setup.engines # {} /\ get_many_by_inchi(t, ks)
  \/ \E t \in setup.callers, k \in Keys, c \in GoodContents :
       setup.engines # {} /\ put(t, k, c)
  \/ \E t \in setup.callers, its \in ConcItemLists :
       setup.engines # {} /\ put_many(t, its)
  \/ \E t \in setup.callers, k \in Keys : setup.engines # {} /\ delete(t, k)

SpecOpen == InitOpen /\ [][NextOpen]_vars

\* C19: EngineUnavailable at construction. On either engine a file that
\* cannot be opened is reported by the constructor: no method of a store is
\* the one that raises the open error.
C19_FailsAtConstruction ==
  call.op # "__init__" => (sres.exc # CantOpen /\ lres.exc # LmdbOpenError)

----------------------------------------------------------------------------
(* The write transactions of the LMDB store, calls of two threads          *)
(* overlapping                                                             *)

\* LMDB put: `with self.env.begin(write=True) as txn:`; the block's one
\* txn.put is a step of lmdb_write_step
lmdb_begin_put(t, inchi, content) ==
  /\ "lmdb" \in setup.engines /\ Free(t)
  /\ lmdb.writer = ""
  /\ lmdb' = [lmdb EXCEPT !.writer = t]
  /\ run' = [run EXCEPT ![t] = [Idle EXCEPT !.pc = "writing", !.op = "put",
                                            !.items = <<<<inchi, content>>>>, !.i = 1,
                                            !.view = lmdb.rows, !.began = lmdb.rows,
                                            !.txns = 1]]
  /\ UNCHANGED <<sqlite, setup, call, lres, sres, env, ldr, http, cfg>>

\* LMDB delete: `with self.env.begin(write=True) as txn:`
lmdb_begin_delete(t, inchi) ==
  /\ "lmdb" \in setup.engines /\ Free(t)
  /\ lmdb.writer = ""
  /\ lmdb' = [lmdb EXCEPT !.writer = t]
  /\ run' = [run EXCEPT ![t] = [Idle EXCEPT !.pc = "deleting", !.op = "delete",
                                            !.inchis = <<inchi>>, !.i = 1,
                                            !.view = lmdb.rows, !.began = lmdb.rows,
                                            !.txns = 1]]
  /\ UNCHANGED <<sqlite, setup, call, lres, sres, env, ldr, http, cfg>>

\* `return txn.delete(inchi.encode())` and the leaving of the block
lmdb_delete_exit(t) ==
  /\ "lmdb" \in setup.engines
  /\ run[t].pc = "deleting"
  /\ LET d == TxnDelete(run[t].view, Utf8Encode(run[t].inchis[1]))
     IN /\ lmdb' = [rows |-> TxnExit(lmdb.rows, d.view, ""),
                    writer |-> LockAfterExit(t, "")]
        /\ run' = [run EXCEPT ![t].pc = "returned", ![t].view = d.view,
                              ![t].res = RetBool(d.found)]
  /\ UNCHANGED <<sqlite, setup, call, lres, sres, env, ldr, http, cfg>>

InitTxn == InitStores /\ setup = [engines |-> {"lmdb"}, callers |-> Threads]

NextTxn ==
  \/ \E t \in setup.callers, k \in Keys, c \in Contents : lmdb_begin_put(t, k, c)
  \/ \E t \in setup.callers, its \in ConcItemLists : lmdb_begin_write(t, its)
  \/ \E t \in setup.callers : lmdb_write_step(t)
  \/ \E t \in setup.callers : lmdb_write_exit(t)
  \/ \E t \in setup.callers, k \in Keys : lmdb_begin_delete(t, k)
  \/ \E t \in setup.callers : lmdb_delete_exit(t)
  \/ \E t \in setup.callers, k \in Keys : lmdb_begin_read(t, "get_by_inchi", <<k>>)
  \/ \E t \in setup.callers : lmdb_read_step(t)
  \/ \E t \in setup.callers : lmdb_read_exit(t)

SpecTxn == InitTxn /\ [][NextTxn]_vars

\* the threads inside a write transaction
InWriteTxn == {t \in Threads : run[t].pc \in {"writing", "deleting"}}

\* C20: ordered-KV transaction scope. A put, put_many or delete on the LMDB
\* store that has returned or raised opened exactly one write transaction; a
\* thread that is in no call holds no write transaction, so each one is ended
\* before its call returns or raises and none is left between calls; and at
\* most one write transaction is open at any time.
C20_TxnScope ==
  /\ [](\A t \in Threads :
          (run[t].pc = "returned" /\ run[t].op \in {"put", "put_many", "delete"})
            => run[t].txns = 1)
  /\ [](\A t \in Threads : Free(t) => lmdb.writer # t)
  /\ []((\A t \in Threads : Free(t)) => lmdb.writer = "")
  /\ [](Cardinality(InWriteTxn) <= 1)
  /\ [](lmdb.writer # "" => InWriteTxn = {lmdb.writer})

\* C20 witness: one thread's put raised and its transaction is over, and the
\* other thread is inside a write transaction of its own
C20_Witness ==
  /\ run["t1"].pc = "returned" /\ run["t1"].op = "put" /\ run["t1"].res.kind = "raise"
  /\ run["t2"].pc = "writing" /\ lmdb.writer = "t2"

----------------------------------------------------------------------------
(* Claims about the SQLite store used by several threads                   *)

\* C21: relational commit visibility. On a SQLite store used by two threads,
\* a get_by_inchi or get_many_by_inchi that returns gives, for each key, the
\* content committed when the call starts, so it observes every put, put_many
\* and delete that returned before it on any thread.
C21_CommitVisible ==
  /\ [][(call'.op = "get_by_inchi" /\ sres'.kind # "raise")
          => sres' = RetStr(StoredContent(sqlite.rows, call'.inchi))]_vars
  /\ [][(call'.op = "get_many_by_inchi" /\ sres'.kind # "raise")
          => sres' = RetList(ExpectedMany(sqlite.rows, call'.inchis))]_vars

\* C24: schema initialization is idempotent. On a SQLite store whose file can
\* be opened, init_db called by either thread at any point never raises,
\* leaves the table in place and the committed rows as they were.
C24_InitDbIdempotent ==
  [][(call'.op = "init_db")
       => /\ sres'.kind # "raise"
          /\ sqlite'.schema
          /\ sqlite'.rows = sqlite.rows]_vars

\* C24 witness: init_db was called by the second thread on a store that holds
\* a row while the first thread's connection has a transaction open
C24_Witness ==
  /\ call.op = "init_db" /\ call.t = "t2"
  /\ sqlite.rows # {}
  /\ sqlite.local_conn["t1"] # 0
  /\ sqlite.txn[sqlite.local_conn["t1"]].mode # "auto"

\* C30: no dangling relational transaction. After a get_by_inchi,
\* get_many_by_inchi, put, put_many or delete on the SQLite store has returned
\* or raised, the connection of the calling thread has no transaction open.
C30_NoDanglingTxn ==
  (call.op \in {"get_by_inchi", "get_many_by_inchi", "put", "put_many", "delete"}
     /\ sqlite.local_conn[call.t] # 0)
    => sqlite.txn[sqlite.local_conn[call.t]] = NoTxn

----------------------------------------------------------------------------
(* Claims about the durability mode of the LMDB store                      *)

\* C22: durability default. Every LMDB environment that was opened has sync
\* and metasync equal; one constructed without a sync argument is durable,
\* as is the one of each serving site; and an environment with sync off was
\* constructed with an explicit sync argument, which among the sites of the
\* repository only the bulk loader passes.
C22_DurableByDefault ==
  /\ env.lmdb_obj = "built" =>
       /\ env.lmdb_flags.sync = env.lmdb_flags.metasync
       /\ ("sync" \notin SiteKeywords(env.lmdb_site) => env.lmdb_flags = Durable)
       /\ (env.lmdb_site \in ServingSites => env.lmdb_flags = Durable)
       /\ (~env.lmdb_flags.sync => "sync" \in SiteKeywords(env.lmdb_site))
  /\ \A site \in RepoSites :
       ("sync" \in SiteKeywords(site) /\ ~SiteSync(site)) => site = "loader"

\* C22 witness: a store was constructed with sync=False and its environment
\* is open in bulk mode, and store calls are made on it
C22_Witness ==
  /\ env.lmdb_obj = "built" /\ env.lmdb_site = "sync_false"
  /\ env.lmdb_flags = [sync |-> FALSE, metasync |-> FALSE]
  /\ call.op = "put"

----------------------------------------------------------------------------
(* Claims about single calls on both stores                                *)

\* C23: put idempotence. In whatever state a put(k, c) is made, on either
\* store, the same put made again right after it gives the result the first
\* one gave (the same return value or the same error) and leaves the
\* committed rows as the first one left them.
C23_PutIdempotent ==
  [][(call'.op = "put")
       => /\ LET again == Lmdb_put(lmdb'.rows, call'.inchi, call'.content)
             IN again.res = lres' /\ again.rows = lmdb'.rows
          /\ LET again == Sqlite_put(sqlite', call'.t, call'.inchi, call'.content)
             IN again.res = sres' /\ again.db.rows = sqlite'.rows]_vars

\* C23 witness: a put of "A" has returned True on both stores, which hold its
\* row and one other row
C23_Witness ==
  /\ call.op = "put" /\ lres = RetBool(TRUE) /\ sres = RetBool(TRUE)
  /\ call.content = StrA
  /\ <<Utf8Encode(call.inchi), Utf8Encode(StrA)>> \in lmdb.rows
  /\ <<Utf8Encode(call.inchi), Utf8Encode(StrA)>> \in sqlite.rows
  /\ Cardinality(lmdb.rows) = 2

\* the keys of a batch, and the content of the last pair that carries key k
BatchKeys(items) == {items[j][1] : j \in 1..Len(items)}
LastContent(items, k) ==
  items[CHOOSE j \in 1..Len(items) :
          /\ items[j][1] = k
          /\ \A m \in (j + 1)..Len(items) : items[m][1] # k][2]

\* C25: put_many result. On either store a put_many that returns gives the
\* number of pairs it was handed, duplicates counted and 0 for the empty
\* batch; afterwards get_by_inchi(k) returns, for a key of the batch, the
\* content of the last pair carrying k, and for any other key what it
\* returned before the call.
C25_PutManyResult ==
  /\ [][(call'.op = "put_many" /\ lres'.kind # "raise")
          => /\ lres' = RetInt(Len(call'.items))
             /\ \A k \in Keys :
                  Lmdb_get_by_inchi(lmdb'.rows, k).res =
                    IF k \in BatchKeys(call'.items)
                    THEN RetStr(LastContent(call'.items, k))
                    ELSE Lmdb_get_by_inchi(lmdb.rows, k).res]_vars
  /\ [][(call'.op = "put_many" /\ sres'.kind # "raise")
          => /\ sres' = RetInt(Len(call'.items))
             /\ \A k \in Keys :
                  Sqlite_get_by_inchi(sqlite', call'.t, k).res =
                    IF k \in BatchKeys(call'.items)
                    THEN RetStr(LastContent(call'.items, k))
                    ELSE Sqlite_get_by_inchi(sqlite, call'.t, k).res]_vars

----------------------------------------------------------------------------
(* Claims about writes of several threads that overlap                     *)

\* what put_many(items) gives when no other call overlaps it: the error of
\* the first pair that cannot be encoded, else the number of pairs
AloneResult(items) ==
  IF \E j \in 1..Len(items) : EncodeError(items[j][2]) # ""
  THEN Raised(EncodeError(items[CHOOSE j \in 1..Len(items) :
                                   /\ EncodeError(items[j][2]) # ""
                                   /\ \A m \in 1..(j - 1) :
                                        EncodeError(items[m][2]) = ""][2]))
  ELSE RetInt(Len(items))

\* C26: write serialization. With put_many calls of two threads overlapping
\* on one store, every call that has finished gave what it gives when the
\* calls run one after the other, and the committed rows of the store only
\* ever change by the whole batch of one call.
C26_WritesSerialize ==
  /\ [](\A t \in Threads :
          (run[t].pc = "returned" /\ run[t].op = "put_many")
            => run[t].res = AloneResult(run[t].items))
  /\ [][lmdb'.rows # lmdb.rows => WholeBatch(lmdb.rows, lmdb'.rows)]_vars
  /\ [][sqlite'.rows # sqlite.rows => WholeBatch(sqlite.rows, sqlite'.rows)]_vars

----------------------------------------------------------------------------
(* Further claims about the bulk loaders                                   *)

\* C27: configured batch size is honoured. In a run for which the caller
\* configured a batch size, the threshold main runs with is that size.
C27_BatchSizeHonoured ==
  (ldr.pc \notin {"off", "start"} /\ ldr.configured # 0)
    => ldr.batch_size = ldr.configured

\* a file name of the run's listing that is a content file with a mapping
MappedName(l, name) ==
  /\ EndsWith(name, DotXyz)
  /\ LET k == MappingGet(LoadMapping(l.mapping_file), WithoutLast4(name))
     IN k # None /\ k # <<>>

\* C28: loader phase ordering. Every file a run has opened is a content file
\* with a mapping entry; the buffer only grows by the pair of the file the
\* loop is at, and only when that file has a mapping and was read; put_many is
\* only called with a full buffer inside the loop or after the last file; and
\* a run that is DONE does nothing more.
C28_PhaseOrder ==
  /\ [](\A j \in 1..Len(ldr.opened) : MappedName(ldr, ldr.opened[j]))
  /\ [][(ldr'.entries # ldr.entries /\ ldr'.entries # <<>>)
          => /\ ldr.pc = "loop" /\ ldr.i <= Len(ldr.listing)
             /\ IsLoadable(ldr, ldr.i)
             /\ ldr'.entries = Append(ldr.entries, PairOf(ldr, ldr.i))
             /\ ldr'.opened = Append(ldr.opened, ldr.listing[ldr.i])]_vars
  /\ [][(ldr'.put_many_calls # ldr.put_many_calls)
          => \/ ldr.pc = "appended" /\ Len(ldr.entries) = ldr.batch_size
             \/ ldr.pc = "loop" /\ ldr.i > Len(ldr.listing)]_vars
  /\ [][ldr.pc = "done" => ldr' = ldr]_vars

\* C28 witness: a run is done that met an unmapped file, then an unreadable
\* one, then a loadable one: it opened the last two and stored the last
C28_Witness ==
  /\ ldr.pc = "done" /\ ldr.mapping_file
  /\ ldr.listing = <<<<"C">> \o DotXyz, <<"D">> \o DotXyz, <<"A">> \o DotXyz>>
  /\ ldr.opened = <<<<"D">> \o DotXyz, <<"A">> \o DotXyz>>
  /\ ldr.put_many_calls = <<<<PairOf(ldr, 3)>>>>

\* the number reported as stored in the last line of a run
StoredTotal(l) == IF l.script = "sqlite" THEN l.mapped_count ELSE l.stored

\* C29: loader record count. When a run into an empty store is done and
\* nothing else wrote to the store, the store holds as many records as the
\* run reports stored.
C29_RecordCount ==
  (ldr.pc = "done" /\ run[OtherThread].pc = "idle")
    => Cardinality(IF ldr.script = "sqlite" THEN sqlite.rows ELSE lmdb.rows)
         = StoredTotal(ldr)

----------------------------------------------------------------------------
(* Frame conditions of the store methods                                   *)

\* the rows of a table under the keys other than inchi
OtherRows(rows, inchi) == rows \ RowsOf(rows, Utf8Encode(inchi))

\* C31: frame conditions. On both engines a call of get_by_inchi or of
\* get_many_by_inchi leaves the rows of the store as they were, and a call of
\* put(k, _) or delete(k) leaves the rows of every key other than k as they
\* were, whether the call returns or raises.
C31_Frame ==
  [][/\ call'.op \in {"get_by_inchi", "get_many_by_inchi"}
          => lmdb'.rows = lmdb.rows /\ sqlite'.rows = sqlite.rows
     /\ call'.op \in {"put", "delete"}
          => /\ OtherRows(lmdb'.rows, call'.inchi) = OtherRows(lmdb.rows, call'.inchi)
             /\ OtherRows(sqlite'.rows, call'.inchi) = OtherRows(sqlite.rows, call'.inchi)]_vars

\* C31 witness: delete(k) has removed k's row from both stores and the other
\* key still has its row in both
C31_Witness ==
  /\ call.op = "delete" /\ call.inchi = <<107>>
  /\ lres = RetBool(TRUE) /\ sres = RetBool(TRUE)
  /\ lmdb.rows = {<<Utf8Encode(<<233>>), Utf8Encode(StrA)>>}
  /\ sqlite.rows = lmdb.rows

----------------------------------------------------------------------------
(* The transport of a key from query_molecule to the GET /molecule handler.*)
(* Strings are sequences of code points; "%" is 37, "/" 47, "?" 63.        *)

\* the longest key given to query_molecule
MaxKeyLen == 3

\* the keys given to query_molecule, made of % 4 1 A / ? + and e-acute
HttpKeys == SeqsUpTo({37, 52, 49, 65, 47, 63, 43, 233}, MaxKeyLen)

\* the characters quote never escapes: letters, digits and _ . - ~
IsUnreserved(cp) ==
  \/ cp >= 48 /\ cp <= 57
  \/ cp >= 65 /\ cp <= 90
  \/ cp >= 97 /\ cp <= 122
  \/ cp \in {95, 46, 45, 126}

IsHex(cp) ==
  \/ cp >= 48 /\ cp <= 57
  \/ cp >= 65 /\ cp <= 70
  \/ cp >= 97 /\ cp <= 102

HexVal(cp) == IF cp <= 57 THEN cp - 48 ELSE IF cp <= 70 THEN cp - 55 ELSE cp - 87

\* '%{:02X}'.format(byte)
PercentEncode(b) ==
  LET HexDigit(n) == IF n < 10 THEN 48 + n ELSE 55 + n
  IN <<37, HexDigit(b \div 16), HexDigit(b % 16)>>

\* quote_from_bytes(bs, safe): a byte is kept when it is unreserved or in
\* safe, and becomes %XX otherwise
RECURSIVE QuoteFromBytes(_, _)
QuoteFromBytes(bs, safe) ==
  IF bs = <<>> THEN <<>>
  ELSE (IF IsUnreserved(bs[1]) \/ bs[1] \in safe THEN <<bs[1]>> ELSE PercentEncode(bs[1]))
         \o QuoteFromBytes(Tail(bs), safe)

\* urllib.parse.quote(string, safe): the string is encoded to UTF-8 first
Quote(string, safe) == QuoteFromBytes(Utf8Encode(string), safe)

\* unquote_to_bytes: %XX with two hex digits becomes the byte, every other
\* character stays
RECURSIVE UnquoteToBytes(_)
UnquoteToBytes(string) ==
  IF string = <<>> THEN <<>>
  ELSE IF string[1] = 37 /\ Len(string) >= 3 /\ IsHex(string[2]) /\ IsHex(string[3])
    THEN <<16 * HexVal(string[2]) + HexVal(string[3])>>
           \o UnquoteToBytes(SubSeq(string, 4, Len(string)))
  ELSE <<string[1]>> \o UnquoteToBytes(Tail(string))

\* how many continuation bytes may follow lead byte b1 (0: b1 cannot start a
\* sequence), and whether b2 may be the first of them
ContCount(b1) ==
  IF b1 >= 194 /\ b1 <= 223 THEN 1
  ELSE IF b1 >= 224 /\ b1 <= 239 THEN 2
  ELSE IF b1 >= 240 /\ b1 <= 244 THEN 3 ELSE 0

FirstContOk(b1, b2) ==
  /\ b2 >= 128 /\ b2 <= 191
  /\ b1 = 224 => b2 >= 160
  /\ b1 = 237 => b2 <= 159
  /\ b1 = 240 => b2 >= 144
  /\ b1 = 244 => b2 <= 143

\* the number of bytes after b[1] that continue its sequence, up to n
RECURSIVE ContPrefix(_, _, _)
ContPrefix(b, j, n) ==
  IF j > n \/ j + 1 > Len(b) THEN j - 1
  ELSE IF (IF j = 1 THEN FirstContOk(b[1], b[2])
              ELSE b[j + 1] >= 128 /\ b[j + 1] <= 191)
    THEN ContPrefix(b, j + 1, n)
  ELSE j - 1

\* bytes.decode('utf-8', 'replace'): an ill-formed sequence becomes U+FFFD
RECURSIVE Utf8DecodeReplace(_)
Utf8DecodeReplace(b) ==
  IF b = <<>> THEN <<>>
  ELSE IF b[1] < 128 THEN <<b[1]>> \o Utf8DecodeReplace(Tail(b))
  ELSE LET n == ContCount(b[1])
           m == ContPrefix(b, 1, n)
           rest == SubSeq(b, m + 2, Len(b))
       IN IF n = 0 THEN <<65533>> \o Utf8DecodeReplace(Tail(b))
          ELSE IF m < n THEN <<65533>> \o Utf8DecodeReplace(rest)
          ELSE IF n = 1
            THEN <<(b[1] - 192) * 64 + (b[2] - 128)>> \o Utf8DecodeReplace(rest)
          ELSE IF n = 2
            THEN <<(b[1] - 224) * 4096 + (b[2] - 128) * 64 + (b[3] - 128)>>
                   \o Utf8DecodeReplace(rest)
          ELSE <<(b[1] - 240) * 262144 + (b[2] - 128) * 4096
                   + (b[3] - 128) * 64 + (b[4] - 128)>> \o Utf8DecodeReplace(rest)

\* the length of the run of ASCII characters string starts with
RECURSIVE AsciiRun(_)
AsciiRun(string) ==
  IF string = <<>> \/ string[1] >= 128 THEN 0 ELSE 1 + AsciiRun(Tail(string))

\* urllib.parse.unquote(string), encoding utf-8, errors 'replace': each run
\* of ASCII characters is unquoted to bytes and decoded; other characters stay
RECURSIVE Unquote(_)
Unquote(string) ==
  IF string = <<>> THEN <<>>
  ELSE IF string[1] >= 128 THEN <<string[1]>> \o Unquote(Tail(string))
  ELSE LET n == AsciiRun(string)
       IN Utf8DecodeReplace(UnquoteToBytes(SubSeq(string, 1, n)))
            \o Unquote(SubSeq(string, n + 1, Len(string)))


\* requests.get(url) sends requote_uri(url).  unquote_unreserved turns the
\* escapes of unreserved characters back into the characters and refuses
\* (InvalidURL) an escape of two alphanumerics that are not hex digits.
\* uri[i] is "%" and the two characters after it are alphanumerics of the
\* same "%"-part
EscapeAt(uri, i) ==
  LET IsAlnum(cp) == \/ cp >= 48 /\ cp <= 57
                     \/ cp >= 65 /\ cp <= 90
                     \/ cp >= 97 /\ cp <= 122
  IN /\ uri[i] = 37 /\ i + 2 <= Len(uri)
     /\ uri[i + 1] # 37 /\ uri[i + 2] # 37
     /\ IsAlnum(uri[i + 1]) /\ IsAlnum(uri[i + 2])

RECURSIVE UnquoteUnreserved(_)
UnquoteUnreserved(uri) ==
  IF uri = <<>> THEN <<>>
  ELSE IF EscapeAt(uri, 1) /\ IsUnreserved(16 * HexVal(uri[2]) + HexVal(uri[3]))
    THEN <<16 * HexVal(uri[2]) + HexVal(uri[3])>>
           \o UnquoteUnreserved(SubSeq(uri, 4, Len(uri)))
  ELSE <<uri[1]>> \o UnquoteUnreserved(Tail(uri))

\* requote_uri; the safe characters are "!#$%&'()*+,/:;=?@[]~", without
\* the "%" when an escape is invalid
RequoteUri(uri) ==
  LET SafeWithPercent == {33, 35, 36, 37, 38, 39, 40, 41, 42, 43, 44, 47, 58, 59,
                          61, 63, 64, 91, 93, 126}
      InvalidEscape == \E i \in 1..Len(uri) :
                         EscapeAt(uri, i) /\ ~(IsHex(uri[i + 1]) /\ IsHex(uri[i + 2]))
  IN IF InvalidEscape THEN Quote(uri, SafeWithPercent \ {37})
     ELSE Quote(UnquoteUnreserved(uri), SafeWithPercent)

\* "/molecule/": what query_molecule puts before the key and what the route
\* "/molecule/{inchi:path}" has before its parameter
MoleculePrefix == <<47, 109, 111, 108, 101, 99, 117, 108, 101, 47>>

\* the path of a request target: what comes before the first "?"
RECURSIVE PathOf(_)
PathOf(target) ==
  IF target = <<>> \/ target[1] = 63 THEN <<>>
  ELSE <<target[1]>> \o PathOf(Tail(target))

\* the rows a serving store may hold: none, or the molecule of key "A"
HttpRowSets == {{}, {<<Utf8Encode(<<65>>), Utf8Encode(StrA)>>}}

\* a service of one engine is up (STORE constructed, init_db called) and
\* query_molecule is about to be called with some key
InitHttp ==
  /\ \E e \in {"lmdb", "sqlite"}, rows \in HttpRowSets :
       /\ setup = [engines |-> {e}, callers |-> {"t1"}]
       /\ lmdb = [rows |-> IF e = "lmdb" THEN rows ELSE {}, writer |-> ""]
       /\ sqlite = [schema |-> e = "sqlite", rows |-> IF e = "sqlite" THEN rows ELSE {},
                    txn |-> [c \in ConnIds |-> NoTxn],
                    local_conn |-> [t \in Threads |-> 0],
                    n_conn |-> 0,
                    users |-> [c \in ConnIds |-> {}]]
  /\ http \in {[NoRequest EXCEPT !.pc = "start", !.inchi = k] : k \in HttpKeys}
  /\ cfg = NoConfig
  /\ run = [t \in Threads |-> Idle]
  /\ call = NoCall /\ lres = NoResult /\ sres = NoResult
  /\ env = EnvBuilt /\ ldr = NoLoader

\* query_molecule up to requests.get: the key is quoted with no safe
\* character and put after "/molecule/" (the base URL is left out: it is the
\* same in every request and has no "%" and no "?")
query_molecule ==
  /\ http.pc = "start"
  /\ LET encoded_inchi == Quote(http.inchi, {})
         url == MoleculePrefix \o encoded_inchi
     IN http' = [http EXCEPT !.pc = "sent", !.url = url, !.target = RequoteUri(url)]
  /\ UNCHANGED <<lmdb, sqlite, setup, call, lres, sres, run, env, ldr, cfg>>

\* the server and the router: the path of the target is percent-decoded into
\* the request's path, and the route takes what follows "/molecule/" in that
\* path as the parameter inchi
route_request ==
  /\ http.pc = "sent"
  /\ LET path == Unquote(PathOf(http.target))
         n == Len(MoleculePrefix)
     IN http' = IF Len(path) >= n /\ SubSeq(path, 1, n) = MoleculePrefix
                THEN [http EXCEPT !.pc = "routed", !.path = path,
                                  !.param = SubSeq(path, Len(MoleculePrefix) + 1, Len(path))]
                ELSE [http EXCEPT !.pc = "responded", !.path = path, !.status = 404]
  /\ UNCHANGED <<lmdb, sqlite, setup, call, lres, sres, run, env, ldr, cfg>>

\* the handler: unquote(inchi), STORE.get_by_inchi(decoded_inchi), 404 when
\* the content is None
get_molecule_by_inchi ==
  /\ http.pc = "routed"
  /\ LET decoded_inchi == Unquote(http.param)
         l == Lmdb_get_by_inchi(lmdb.rows, decoded_inchi)
         q == Sqlite_get_by_inchi(sqlite, "t1", decoded_inchi)
         r == IF "lmdb" \in setup.engines THEN l.res ELSE q.res
     IN /\ lres' = IF "lmdb" \in setup.engines THEN l.res ELSE NoResult
        /\ sres' = IF "sqlite" \in setup.engines THEN q.res ELSE NoResult
        /\ sqlite' = IF "sqlite" \in setup.engines THEN q.db ELSE sqlite
        /\ call' = [NoCall EXCEPT !.op = "get_by_inchi", !.t = "t1",
                                  !.inchi = decoded_inchi]
        /\ http' = [http EXCEPT !.pc = "responded",
                                !.status = IF r.kind = "raise" THEN 500
                                           ELSE IF r.val = None THEN 404 ELSE 200]
  /\ UNCHANGED <<lmdb, setup, run, env, ldr, cfg>>

NextHttp ==
  \/ query_molecule
  \/ route_request
  \/ get_molecule_by_inchi

SpecHttp == InitHttp /\ [][NextHttp]_vars

\* C32: key transport round-trip. When the handler of GET /molecule has
\* answered a request that query_molecule(k) built, the key it passed to
\* STORE.get_by_inchi is k.
C32_KeyRoundTrip ==
  (http.pc = "responded" /\ call.op = "get_by_inchi") => call.inchi = http.inchi

----------------------------------------------------------------------------
(* Config: the config file, the environment, the defaults.  Two settings   *)
(* stand for all: lmdb_path, a string, and lmdb_api_port, which            *)
(* _load_from_env converts with int().                                     *)

\* os.environ.get(name) for the two variables: None (not set), "", a value;
\* for the port "9" and "x"
EnvPathValues == {None, <<>>, <<47, 101>>}
EnvPortValues == {None, <<>>, <<57>>, <<120>>}

\* the values a config file gives the settings: "/f" and 7
FileItems == {<<"lmdb_path", <<47, 102>>>>, <<"lmdb_api_port", 7>>}

\* the config file: absent; present but open() fails; present but not JSON;
\* or holding a JSON value, an object with some of the settings or an array
ConfigFiles ==
  {[kind |-> k, value |-> Dict({})] : k \in {"absent", "unreadable", "malformed"}}
    \cup {[kind |-> "json", value |-> Dict(its)] : its \in SUBSET FileItems}
    \cup {[kind |-> "json", value |-> [type |-> "list", items |-> {}]]}

\* "molecules.lmdb"
DefaultLmdbPath == <<109, 111, 108, 101, 99, 117, 108, 101, 115, 46, 108, 109, 100, 98>>
DefaultLmdbApiPort == 8000

\* `if value:` for a string or None
Truthy(v) == v # None /\ v # <<>>

\* int(string) for a string of decimal digits; any other string of the model
\* raises ValueError
RECURSIVE IntValue(_)
IntValue(string) ==
  IF string = <<>> THEN 0
  ELSE 10 * IntValue(SubSeq(string, 1, Len(string) - 1)) + (string[Len(string)] - 48)

IntError(string) ==
  IF string # <<>> /\ \A i \in 1..Len(string) : string[i] >= 48 /\ string[i] <= 57
  THEN "" ELSE "ValueError"

\* self._config[key] = value: [config, exc]
SetItem(config, key, value) ==
  IF config.type # "dict" THEN [config |-> config, exc |-> "TypeError"]
  ELSE [config |-> Dict({it \in config.items : it[1] # key} \cup {<<key, value>>}),
        exc |-> ""]

\* self._config.get(key, default)
DictGet(config, key, default) ==
  IF config.type # "dict" THEN [kind |-> "raise", val |-> "AttributeError"]
  ELSE IF \E it \in config.items : it[1] = key
    THEN [kind |-> "value", val |-> (CHOOSE it \in config.items : it[1] = key)[2]]
  ELSE [kind |-> "value", val |-> default]

InitConfig ==
  /\ setup = [engines |-> {}, callers |-> {"t1"}]
  /\ lmdb = [rows |-> {}, writer |-> ""]
  /\ sqlite = [schema |-> FALSE, rows |-> {},
               txn |-> [c \in ConnIds |-> NoTxn],
               local_conn |-> [t \in Threads |-> 0],
               n_conn |-> 0,
               users |-> [c \in ConnIds |-> {}]]
  /\ run = [t \in Threads |-> Idle]
  /\ call = NoCall /\ lres = NoResult /\ sres = NoResult
  /\ env = EnvBuilt /\ ldr = NoLoader /\ http = NoRequest
  /\ cfg \in {[NoConfig EXCEPT !.pc = "new", !.file = f,
                               !.environ = [lmdb_path |-> p, lmdb_api_port |-> q]] :
                f \in ConfigFiles, p \in EnvPathValues, q \in EnvPortValues}

\* __init__ up to _load_from_file: _config = {}; when the file exists it is
\* opened and parsed, and any exception of that is printed and dropped
load_from_file ==
  /\ cfg.pc = "new"
  /\ cfg' = [cfg EXCEPT !.pc = "file_loaded",
                        !.config = IF cfg.file.kind = "json" THEN cfg.file.value
                                   ELSE Dict({})]
  /\ UNCHANGED <<lmdb, sqlite, setup, call, lres, sres, run, env, ldr, http>>

\* _load_from_env: each variable that is set and not empty is stored under
\* its key, the port after int(); the first exception ends the construction
load_from_env ==
  /\ cfg.pc = "file_loaded"
  /\ LET e == cfg.environ
         a == IF Truthy(e.lmdb_path) THEN SetItem(cfg.config, "lmdb_path", e.lmdb_path)
              ELSE [config |-> cfg.config, exc |-> ""]
         conv == IF Truthy(e.lmdb_api_port) THEN IntError(e.lmdb_api_port) ELSE ""
         b == IF a.exc # "" THEN a
              ELSE IF conv # "" THEN [config |-> a.config, exc |-> conv]
              ELSE IF Truthy(e.lmdb_api_port)
                THEN SetItem(a.config, "lmdb_api_port", IntValue(e.lmdb_api_port))
              ELSE a
     IN cfg' = IF b.exc # "" THEN [cfg EXCEPT !.pc = "raised", !.exc = b.exc,
                                              !.config = b.config]
               ELSE [cfg EXCEPT !.pc = "constructed", !.config = b.config]
  /\ UNCHANGED <<lmdb, sqlite, setup, call, lres, sres, run, env, ldr, http>>

get_lmdb_path ==
  /\ cfg.pc \in {"constructed", "got"}
  /\ cfg' = [cfg EXCEPT !.pc = "got", !.setting = "lmdb_path",
                        !.res = DictGet(cfg.config, "lmdb_path", DefaultLmdbPath)]
  /\ UNCHANGED <<lmdb, sqlite, setup, call, lres, sres, run, env, ldr, http>>

get_lmdb_api_port ==
  /\ cfg.pc \in {"constructed", "got"}
  /\ cfg' = [cfg EXCEPT !.pc = "got", !.setting = "lmdb_api_port",
                        !.res = DictGet(cfg.config, "lmdb_api_port", DefaultLmdbApiPort)]
  /\ UNCHANGED <<lmdb, sqlite, setup, call, lres, sres, run, env, ldr, http>>

NextConfig ==
  \/ load_from_file
  \/ load_from_env
  \/ get_lmdb_path
  \/ get_lmdb_api_port

SpecConfig == InitConfig /\ [][NextConfig]_vars

\* the file parsed to a value that has the key
FileHas(file, key) ==
  file.kind = "json" /\ file.value.type = "dict"
    /\ \E it \in file.value.items : it[1] = key

FileValue(file, key) == (CHOOSE it \in file.value.items : it[1] = key)[2]

\* C33: configuration precedence. A getter returns the value of the
\* setting's environment variable when that is set and not empty, otherwise
\* the value of the config file when the file exists, parses and has the
\* key, otherwise the default; and with an unreadable or malformed config
\* file the construction does not fail, unless the environment gives a port
\* that is no number.
C33_Precedence ==
  /\ (cfg.pc = "got" /\ cfg.setting = "lmdb_path")
       => /\ cfg.res.kind = "value"
          /\ cfg.res.val = IF Truthy(cfg.environ.lmdb_path) THEN cfg.environ.lmdb_path
                           ELSE IF FileHas(cfg.file, "lmdb_path")
                             THEN FileValue(cfg.file, "lmdb_path")
                           ELSE DefaultLmdbPath
  /\ (cfg.pc = "got" /\ cfg.setting = "lmdb_api_port")
       => /\ cfg.res.kind = "value"
          /\ cfg.res.val = IF Truthy(cfg.environ.lmdb_api_port)
                             THEN IntValue(cfg.environ.lmdb_api_port)
                           ELSE IF FileHas(cfg.file, "lmdb_api_port")
                             THEN FileValue(cfg.file, "lmdb_api_port")
                           ELSE DefaultLmdbApiPort
  /\ (cfg.file.kind \in {"unreadable", "malformed"} /\ cfg.pc = "raised")
       => (Truthy(cfg.environ.lmdb_api_port) /\ IntError(cfg.environ.lmdb_api_port) # "")

====
